---- MODULE Spec2Model ----
(***************************************************************************)
(* Model of the Modbus remote client 93-0000020 in its two variants:       *)
(*   V140  src/93-0000020.py                         (__version__ V1.4.0)  *)
(*   V101  src/93-0000020 V1.01 BUILD 20220216/93-0000020.py               *)
(* The script interpreter (run_script, do_script_line) and the transport   *)
(* wrappers (read_register, read_registers, write_register) are modelled   *)
(* as a state machine; texts are TLA+ strings built with \o as the code    *)
(* builds them with += and f-strings.                                      *)
(***************************************************************************)
EXTENDS Integers, Sequences, FiniteSets, TLC

VARIABLES
  variant,      \* which program runs: "V101" or "V140"
  device,       \* the word the device holds in its registers during the run
  product,      \* V140 global product (index into products); 0 in V101
  pc,           \* position of the main thread
  nlines,       \* run_script: len(lines)
  rowno,        \* run_script: rows of rdr consumed so far
  line,         \* do_script_line: the coerced row (sequence of tokens)
  i,            \* do_script_line: loop variable of `for i in range(iterations)`
  ret,          \* the report text (run_script ret / do_script_line ret)
  comm_status,  \* V140 global comm_status
  result,       \* do_script_line: result of the last transport operation
  calls,        \* transport calls issued for the current row with the
                \* instrument's responses, in order
  faults,       \* transport faults injected so far in this run
  sleeps,       \* time.sleep calls made for the current row
  err,          \* the exception that left run_script and where it was raised
  cell,         \* run_script: the cell `a` of the row being coerced
  token,        \* run_script: what the cell loop appended to b for the cell
  frame,        \* showlog: its argument ret, the 8 words of a log entry
  logged,       \* showlog: the decoded line, or the exception that left it
  regname,      \* a register name given to the catalog
  address,      \* the address the name resolves to, regs[name]
  register,     \* showlog: the names found for an address, joined with `;`
  instrument,   \* V140 global instrument (V101: the module-level name)
  connected,    \* main: the local flag connected
  connect_disabled,  \* the disabled state of the Connect button
  log_handle,   \* global log_handle: "None", or "file" once a log file is open
  write_count,  \* global write_count
  written,      \* lines written to log files so far
  flushes,      \* log_handle.flush() calls so far
  polled,       \* what the log poll of the last timer tick came to
  shows         \* showlog calls made by the last timer tick

vars == <<variant, device, product, pc, nlines, rowno, line, i, ret, comm_status,
          result, calls, faults, sleeps, err, cell, token, frame, logged,
          regname, address, register, instrument, connected, connect_disabled,
          log_handle, write_count, written, flushes, polled, shows>>

\* the variables of the script interpreter
script == <<nlines, rowno, line, i, ret, comm_status, result, calls, faults, sleeps, err>>

\* the variables of the cell loop and of the log decoder
pure == <<cell, token, frame, logged>>

\* the variables of the register catalog
catalog == <<regname, address, register>>

\* the variables of the session: connection, log poll and log file
session == <<instrument, connected, connect_disabled, log_handle, write_count,
             written, flushes, polled, shows>>

-----------------------------------------------------------------------------
(* Bounds of the model *)

\* largest number of executable lines in a script file
MaxRows == 2

\* largest number of transport faults the device produces in one run
MaxFaults == 1

-----------------------------------------------------------------------------
(* Register catalog *)

regs_product0 ==
  <<
    <<"BIT", 0>>, <<"TOTAL_ERRORS", 1>>, <<"LOG_HEAD", 2>>, <<"LOG_TAIL", 3>>,
    <<"LOG_STATUS", 4>>, <<"LOG_LEVEL", 5>>, <<"LOG_CODE", 6>>, <<"LOG_DEVICE", 7>>,
    <<"LOG_MSG_LEN", 8>>, <<"LOG_VALUE0", 9>>, <<"LOG_VALUE1", 10>>, <<"LOG_VALUE2", 11>>,
    <<"LOG_VALUE3", 12>>, <<"LOG1_LEVEL", 13>>, <<"LOG1_CODE", 14>>, <<"LOG1_DEVICE", 15>>,
    <<"LOG1_MSG_LEN", 16>>, <<"LOG1_VALUE0", 17>>, <<"LOG1_VALUE1", 18>>,
    <<"LOG1_VALUE2", 19>>, <<"LOG1_VALUE3", 20>>, <<"LOG2_LEVEL", 21>>, <<"LOG2_CODE", 22>>,
    <<"LOG2_DEVICE", 23>>, <<"LOG2_MSG_LEN", 24>>, <<"LOG2_VALUE0", 25>>,
    <<"LOG2_VALUE1", 26>>, <<"LOG2_VALUE2", 27>>, <<"LOG2_VALUE3", 28>>, <<"LOG3_LEVEL", 29>>,
    <<"LOG3_CODE", 30>>, <<"LOG3_DEVICE", 31>>, <<"LOG3_MSG_LEN", 32>>, <<"LOG3_VALUE0", 33>>,
    <<"LOG3_VALUE1", 34>>, <<"LOG3_VALUE2", 35>>, <<"LOG3_VALUE3", 36>>,
    <<"START_VOLTAGE", 37>>, <<"START_DELAY", 38>>, <<"STOP_VOLTAGE", 39>>,
    <<"STOP_DELAY", 40>>, <<"CRANK_TIMEOUT", 41>>, <<"REGULATED_VOLTAGE", 42>>,
    <<"MAX_CHARGING_CURRENT", 43>>, <<"LVCO", 44>>, <<"BUS_VOLTAGE", 45>>, <<"CURRENTS", 46>>,
    <<"GEN_CONTROL", 47>>, <<"AGS_STATUS", 48>>, <<"AC_INPUT", 49>>, <<"AMMPS_RESPONSE", 50>>,
    <<"GEN_WARMUP", 51>>, <<"WARMUP_STATE", 52>>, <<"GENERATOR_POWER_SETTINGS", 53>>,
    <<"AVAILABLE_CURRENT", 54>>, <<"CHARGER_MODE", 55>>, <<"PID_KP", 56>>, <<"PID_KI", 57>>,
    <<"PID_KD", 58>>, <<"PID_INPUT", 59>>, <<"PID_OUTPUT", 60>>, <<"PID_SET_POINT", 61>>,
    <<"CHARGING_CURRENT_OFFSET", 62>>, <<"REGULATED_CURRENT_OFFSET", 63>>, <<"VERSION", 64>>,
    <<"TOTAL_REGS_SIZE", 65>>
  >>

regs_product1 ==
  <<
    <<"Absorb time", 46>>, <<"Absorb exit amps", 47>>, <<"Bulk current", 48>>,
    <<"Absorb voltage", 49>>, <<"Equalization voltage", 50>>, <<"Floating voltage", 51>>,
    <<"Temperature compensation", 52>>, <<"Battery low voltage", 53>>,
    <<"Battery over voltage", 54>>, <<"Low voltage alarm", 55>>, <<"Reset voltage", 56>>,
    <<"Low voltage detect time", 57>>, <<"Low voltage cut off time", 58>>,
    <<"Charge mode (equalization)", 59>>, <<"Mode (Online mode)", 60>>,
    <<"Online option", 61>>, <<"Reset to Bulk stage", 62>>, <<"Charging profile", 63>>,
    <<"Default frequency", 64>>, <<"Grid input max current", 65>>,
    <<"Low frequency cut off", 66>>, <<"Low frequency reset", 67>>,
    <<"High frequency cut off", 68>>, <<"High frequency reset", 69>>,
    <<"Low voltage reset", 70>>, <<"Low voltage cut off 1", 71>>,
    <<"Low voltage cut off 2", 72>>, <<"Low voltage cut off 3", 73>>,
    <<"Low voltage detect time 1", 74>>, <<"Low voltage detect time 2", 75>>,
    <<"Low voltage detect time 3", 76>>, <<"High voltage reset", 77>>,
    <<"High voltage cut off 1", 78>>, <<"High voltage cut off 2", 79>>,
    <<"High voltage cut off 3", 80>>, <<"High voltage detect time 1", 81>>,
    <<"High voltage detect time 2", 82>>, <<"High voltage detect time 3", 83>>,
    <<"Gen input maximum current", 84>>, <<"GS detect time", 85>>, <<"GEN ON time", 86>>,
    <<"GEN OFF delay", 87>>, <<"Battery type", 88>>, <<"Input OC Protection", 89>>,
    <<"Input Recovery", 90>>, <<"Sync. Grid", 91>>, <<"Sync. GEN", 92>>,
    <<"Safe Charging", 93>>, <<"External Charger", 95>>, <<"Power saving", 96>>,
    <<"Enter point", 97>>, <<"Wake up point", 98>>, <<"Remote switch", 99>>,
    <<"Relay function", 100>>, <<"Comm. ID", 101>>, <<"Buzzer", 102>>,
    <<"Discharge beep", 103>>, <<"Default reset", 104>>, <<"Data log time", 105>>,
    <<"Temperature unit", 107>>, <<"Password disable", 108>>,
    <<"Remote switch delay time", 109>>, <<"Status of GEN input", 256>>,
    <<"Frequency of GEN input", 257>>, <<"Voltage of GEN input", 258>>,
    <<"Status of Grid input", 259>>, <<"Frequency of Grid input", 260>>,
    <<"Voltage of Grid input", 261>>, <<"Input current", 262>>, <<"Input VA", 264>>,
    <<"Input watt", 266>>, <<"Output frequency", 268>>, <<"Output voltage", 269>>,
    <<"Invert/Charge current", 270>>, <<"Invert/Charge VA", 272>>,
    <<"Invert/Charge watt", 274>>, <<"Battery voltage", 276>>, <<"Battery current", 277>>,
    <<"External current", 278>>, <<"Battery temperature", 279>>,
    <<"Transformer temperature", 280>>, <<"Bus bar temperature", 281>>,
    <<"Heat sink temperature", 282>>, <<"Fan speed", 283>>, <<"Operating mode", 284>>,
    <<"Error code", 285>>, <<"Charge stage", 286>>, <<"Version", 287>>,
    <<"Compensating voltage", 288>>, <<"Control", 512>>
  >>

regs_v101 ==
  <<
    <<"BIT", 0>>, <<"TOTAL_ERRORS", 1>>, <<"LOG_HEAD", 2>>, <<"LOG_TAIL", 3>>,
    <<"LOG_STATUS", 4>>, <<"LOG_LEVEL", 5>>, <<"LOG_CODE", 6>>, <<"LOG_DEVICE", 7>>,
    <<"LOG_MSG_LEN", 8>>, <<"LOG_VALUE0", 9>>, <<"LOG_VALUE1", 10>>, <<"LOG_VALUE2", 11>>,
    <<"LOG_VALUE3", 12>>, <<"LOG1_LEVEL", 13>>, <<"LOG1_CODE", 14>>, <<"LOG1_DEVICE", 15>>,
    <<"LOG1_MSG_LEN", 16>>, <<"LOG1_VALUE0", 17>>, <<"LOG1_VALUE1", 18>>,
    <<"LOG1_VALUE2", 19>>, <<"LOG1_VALUE3", 20>>, <<"LOG2_LEVEL", 21>>, <<"LOG2_CODE", 22>>,
    <<"LOG2_DEVICE", 23>>, <<"LOG2_MSG_LEN", 24>>, <<"LOG2_VALUE0", 25>>,
    <<"LOG2_VALUE1", 26>>, <<"LOG2_VALUE2", 27>>, <<"LOG2_VALUE3", 28>>, <<"LOG3_LEVEL", 29>>,
    <<"LOG3_CODE", 30>>, <<"LOG3_DEVICE", 31>>, <<"LOG3_MSG_LEN", 32>>, <<"LOG3_VALUE0", 33>>,
    <<"LOG3_VALUE1", 34>>, <<"LOG3_VALUE2", 35>>, <<"LOG3_VALUE3", 36>>,
    <<"START_VOLTAGE", 37>>, <<"START_DELAY", 38>>, <<"STOP_VOLTAGE", 39>>,
    <<"STOP_DELAY", 40>>, <<"CRANK_TIMEOUT", 41>>, <<"REGULATED_VOLTAGE", 42>>,
    <<"MAX_CHARGING_CURRENT", 43>>, <<"LVCO", 44>>, <<"BUS_VOLTAGE", 45>>, <<"CURRENTS", 46>>,
    <<"GEN_CONTROL", 47>>, <<"AGS_STATUS", 48>>, <<"AC_INPUT", 49>>, <<"AMMPS_RESPONSE", 50>>,
    <<"GEN_WARMUP", 51>>, <<"WARMUP_STATE", 52>>, <<"GENERATOR_POWER_SETTINGS", 53>>,
    <<"AVAILABLE_CURRENT", 54>>, <<"CHARGER_MODE", 55>>, <<"TOTAL_REGS_SIZE", 56>>
  >>

\* products[product][3] (V140) / regs (V101) as the ordered list of items
RegMap(v, p) ==
  IF v = "V101" THEN regs_v101
  ELSE IF p = 0 THEN regs_product0 ELSE regs_product1

\* `name in regs`
HasKey(m, name) == \E k \in 1..Len(m) : m[k][1] = name

\* regs[name], for a name that is a key
Lookup(m, name) == m[CHOOSE k \in 1..Len(m) : m[k][1] = name][2]

\* list(regs.keys())[addr]; "" stands for the IndexError of an addr past the end
KeyAt(m, addr) == IF addr + 1 \in 1..Len(m) THEN m[addr + 1][1] ELSE ""

-----------------------------------------------------------------------------
(* Text helpers: Python str operations on TLA+ strings *)

Ch(s, k) == SubSeq(s, k, k)

DigitChars == {"0", "1", "2", "3", "4", "5", "6", "7", "8", "9"}
IsDigit(c) == c \in DigitChars
DigitVal(c) ==
  CASE c = "0" -> 0 [] c = "1" -> 1 [] c = "2" -> 2 [] c = "3" -> 3 [] c = "4" -> 4
    [] c = "5" -> 5 [] c = "6" -> 6 [] c = "7" -> 7 [] c = "8" -> 8 [] c = "9" -> 9

Uppers == <<"A", "B", "C", "D", "E", "F", "G", "H", "I", "J", "K", "L", "M",
            "N", "O", "P", "Q", "R", "S", "T", "U", "V", "W", "X", "Y", "Z">>
Lowers == <<"a", "b", "c", "d", "e", "f", "g", "h", "i", "j", "k", "l", "m",
            "n", "o", "p", "q", "r", "s", "t", "u", "v", "w", "x", "y", "z">>
UpperChars == {Uppers[k] : k \in 1..Len(Uppers)}
LowerChars == {Lowers[k] : k \in 1..Len(Lowers)}
LowerCh(c) ==
  IF c \in UpperChars THEN Lowers[CHOOSE k \in 1..Len(Uppers) : Uppers[k] = c] ELSE c

\* str.lower()
RECURSIVE Lower(_)
Lower(s) == IF s = "" THEN "" ELSE LowerCh(Ch(s, 1)) \o Lower(SubSeq(s, 2, Len(s)))

IsSpace(c) == c \in {" ", "\t", "\n", "\r"}

RECURSIVE LStrip(_)
LStrip(s) == IF s # "" /\ IsSpace(Ch(s, 1)) THEN LStrip(SubSeq(s, 2, Len(s))) ELSE s

RECURSIVE RStrip(_)
RStrip(s) ==
  IF s # "" /\ IsSpace(Ch(s, Len(s))) THEN RStrip(SubSeq(s, 1, Len(s) - 1)) ELSE s

\* str.strip()
Strip(s) == RStrip(LStrip(s))

\* `m in s` for texts
Contains(s, m) ==
  \E k \in 1..(Len(s) - Len(m) + 1) : SubSeq(s, k, k + Len(m) - 1) = m

\* s.startswith(p) / s.endswith(p)
StartsWith(s, p) == Len(p) <= Len(s) /\ SubSeq(s, 1, Len(p)) = p
EndsWith(s, p) == Len(p) <= Len(s) /\ SubSeq(s, Len(s) - Len(p) + 1, Len(s)) = p

AllDigits(s) == s # "" /\ \A k \in 1..Len(s) : IsDigit(Ch(s, k))

RECURSIVE DigitsVal(_)
DigitsVal(s) ==
  IF s = "" THEN 0
  ELSE 10 * DigitsVal(SubSeq(s, 1, Len(s) - 1)) + DigitVal(Ch(s, Len(s)))

RECURSIVE Pow10(_)
Pow10(d) == IF d = 0 THEN 1 ELSE 10 * Pow10(d - 1)

-----------------------------------------------------------------------------
(* Value coercion: the cell loop of run_script *)

\* A Python value is [t, n, d, s, l]: t its type, n/d the number n / 10^d of
\* an int, float or bool (True = 1), s the text of a str, l the items of a
\* list of ints.
TInt(n) == [t |-> "int", n |-> n, d |-> 0, s |-> "", l |-> <<>>]
TFloat(n, d) == [t |-> "float", n |-> n, d |-> d, s |-> "", l |-> <<>>]
TBool(b) == [t |-> "bool", n |-> IF b THEN 1 ELSE 0, d |-> 0, s |-> "", l |-> <<>>]
TStr(s) == [t |-> "str", n |-> 0, d |-> 0, s |-> s, l |-> <<>>]
TNone == [t |-> "NoneType", n |-> 0, d |-> 0, s |-> "", l |-> <<>>]
TList(l) == [t |-> "list", n |-> 0, d |-> 0, s |-> "", l |-> l]

\* sign and magnitude of a literal with an optional leading sign
Unsigned(s) == IF s # "" /\ Ch(s, 1) \in {"+", "-"} THEN SubSeq(s, 2, Len(s)) ELSE s
Sign(s) == IF s # "" /\ Ch(s, 1) = "-" THEN -1 ELSE 1

\* int(a) succeeds: optional blanks, optional sign, decimal digits
IsIntText(a) == AllDigits(Unsigned(Strip(a)))
IntOf(a) == Sign(Strip(a)) * DigitsVal(Unsigned(Strip(a)))

\* position of the decimal point of a text with exactly one ".", else 0
DotAt(s) ==
  LET dots == {k \in 1..Len(s) : Ch(s, k) = "."}
  IN IF Cardinality(dots) = 1 THEN CHOOSE k \in dots : TRUE ELSE 0

\* float(a) succeeds on a decimal-point literal: digits "." digits, one side
\* may be empty (exponent forms, inf and nan are outside the modelled inputs)
IsPointText(s) ==
  LET dot == DotAt(s)
      whole == SubSeq(s, 1, dot - 1)
      frac == SubSeq(s, dot + 1, Len(s))
  IN /\ dot > 0
     /\ whole \o frac # ""
     /\ whole = "" \/ AllDigits(whole)
     /\ frac = "" \/ AllDigits(frac)

IsFloatText(a) == IsIntText(a) \/ IsPointText(Unsigned(Strip(a)))

FloatOf(a) ==
  LET u == Unsigned(Strip(a))
      dot == DotAt(u)
      whole == SubSeq(u, 1, dot - 1)
      frac == SubSeq(u, dot + 1, Len(u))
  IN TFloat(Sign(Strip(a)) * DigitsVal(whole \o frac), Len(frac))

\* mutant of coerce: float(a) is tried before int(a)
coerce_FloatFirst(a) ==
  IF IsFloatText(a) THEN
    IF IsIntText(a) THEN TFloat(IntOf(a), 0) ELSE FloatOf(a)
  ELSE IF Lower(a) = "false" THEN TBool(FALSE)
  ELSE IF Lower(a) = "true" THEN TBool(TRUE)
  ELSE TStr(a)

\* one cell of the row: int, else float, else bool, else the text itself
coerce(a) ==
  IF IsIntText(a) THEN TInt(IntOf(a))
  ELSE IF IsFloatText(a) THEN FloatOf(a)
  ELSE IF Lower(a) = "false" THEN TBool(FALSE)
  ELSE IF Lower(a) = "true" THEN TBool(TRUE)
  ELSE TStr(a)

\* b = [coerce(a) for a in row]
CoerceRow(row) == [k \in 1..Len(row) |-> coerce(row[k])]

-----------------------------------------------------------------------------
(* Python operations the interpreter applies to values *)

IsNumber(v) == v.t \in {"int", "float", "bool"}

Abs(n) == IF n < 0 THEN -n ELSE n

RECURSIVE ZeroPad(_, _)
ZeroPad(s, w) == IF Len(s) >= w THEN s ELSE ZeroPad("0" \o s, w)

RECURSIVE TrimZeros(_)
TrimZeros(s) ==
  IF s # "" /\ Ch(s, Len(s)) = "0" THEN TrimZeros(SubSeq(s, 1, Len(s) - 1)) ELSE s

\* repr of a float n / 10^d in positional notation
FloatStr(n, d) ==
  LET whole == Abs(n) \div Pow10(d)
      frac == TrimZeros(ZeroPad(ToString(Abs(n) % Pow10(d)), d))
  IN (IF n < 0 THEN "-" ELSE "") \o ToString(whole) \o "."
       \o (IF frac = "" THEN "0" ELSE frac)

RECURSIVE JoinInts(_)
JoinInts(l) ==
  IF l = <<>> THEN ""
  ELSE IF Len(l) = 1 THEN ToString(l[1])
  ELSE ToString(l[1]) \o ", " \o JoinInts(Tail(l))

\* str(v), also what an f-string puts for {v}
Str(v) ==
  CASE v.t = "int" -> ToString(v.n)
    [] v.t = "float" -> FloatStr(v.n, v.d)
    [] v.t = "bool" -> IF v.n = 1 THEN "True" ELSE "False"
    [] v.t = "str" -> v.s
    [] v.t = "NoneType" -> "None"
    [] v.t = "list" -> "[" \o JoinInts(v.l) \o "]"

\* bool(v), the test of `if v:`
Truthy(v) ==
  CASE IsNumber(v) -> v.n # 0
    [] v.t = "str" -> v.s # ""
    [] v.t = "NoneType" -> FALSE
    [] v.t = "list" -> v.l # <<>>

\* v > k for an int k; meaningful for numbers only (else TypeError)
GreaterThan(v, k) == v.n > k * Pow10(v.d)

\* the message of the TypeError of `v > 0`
GtTypeError(v) ==
  "'>' not supported between instances of '" \o v.t \o "' and 'int'"

-----------------------------------------------------------------------------
(* Assertion evaluation: eval(assertion, {}, {"x": result}) *)

\* names of the builtins module the modelled expressions may mention
Builtins == {"len"}

\* Name lookup of eval(..., {}, {"x": result}): locals, then the globals
\* dict, then builtins (eval adds __builtins__ to a globals dict lacking it).
Resolves(name) == name = "x" \/ name \in Builtins

IsIdent(s) ==
  /\ s # ""
  /\ \A k \in 1..Len(s) :
       \/ Ch(s, k) \in LowerChars \cup UpperChars \cup {"_"}
       \/ k > 1 /\ IsDigit(Ch(s, k))

\* position of the first occurrence of m in s, 0 if none
Find(s, m) ==
  IF Contains(s, m)
  THEN CHOOSE k \in 1..Len(s) :
         /\ SubSeq(s, k, k + Len(m) - 1) = m
         /\ \A j \in 1..(k - 1) : SubSeq(s, j, j + Len(m) - 1) # m
  ELSE 0

\* The expressions modelled:  term  |  term " > " digits  with
\*   term ::= ident | ident "(" ident ")" | ident "[" digits "]"
\* ParseTerm gives [k, id, arg, ix]; k = "bad" is a SyntaxError.
BadTerm == [k |-> "bad", id |-> "", arg |-> "", ix |-> 0]

ParseTerm(s) ==
  LET par == Find(s, "(")
      bra == Find(s, "[")
  IN IF IsIdent(s) THEN [k |-> "name", id |-> s, arg |-> "", ix |-> 0]
     ELSE IF /\ par > 1 /\ EndsWith(s, ")")
             /\ IsIdent(SubSeq(s, 1, par - 1))
             /\ IsIdent(SubSeq(s, par + 1, Len(s) - 1))
       THEN [k |-> "call", id |-> SubSeq(s, 1, par - 1),
             arg |-> SubSeq(s, par + 1, Len(s) - 1), ix |-> 0]
     ELSE IF /\ bra > 1 /\ EndsWith(s, "]")
             /\ IsIdent(SubSeq(s, 1, bra - 1))
             /\ AllDigits(SubSeq(s, bra + 1, Len(s) - 1))
       THEN [k |-> "index", id |-> SubSeq(s, 1, bra - 1), arg |-> "",
             ix |-> DigitsVal(SubSeq(s, bra + 1, Len(s) - 1))]
     ELSE BadTerm

\* [term, cmp, k]: cmp tells whether " > k" follows the term
ParseExpr(s) ==
  LET gt == Find(s, " > ")
  IN IF gt = 0 THEN [term |-> ParseTerm(s), cmp |-> FALSE, k |-> 0]
     ELSE IF AllDigits(SubSeq(s, gt + 3, Len(s)))
       THEN [term |-> ParseTerm(SubSeq(s, 1, gt - 1)), cmp |-> TRUE,
             k |-> DigitsVal(SubSeq(s, gt + 3, Len(s)))]
     ELSE [term |-> BadTerm, cmp |-> FALSE, k |-> 0]

\* names the expression mentions
NamesOf(s) ==
  LET t == ParseExpr(s).term
  IN CASE t.k = "name" -> {t.id}
       [] t.k = "call" -> {t.id, t.arg}
       [] t.k = "index" -> {t.id}
       [] OTHER -> {}

\* outcome of an evaluation: the value, or the exception raised
Val(v) == [exc |-> "", msg |-> "", v |-> v]
Exc(e, m) == [exc |-> e, msg |-> m, v |-> TNone]

NameErr(name) == Exc("NameError", "name '" \o name \o "' is not defined")

\* value of a term with x bound to r
EvalTerm(t, r) ==
  CASE t.k = "bad" -> Exc("SyntaxError", "invalid syntax (<string>, line 1)")
    [] t.k = "name" ->
         IF t.id = "x" THEN Val(r)
         ELSE IF t.id \in Builtins THEN Val(TStr("<built-in function " \o t.id \o ">"))
         ELSE NameErr(t.id)
    [] t.k = "call" ->
         IF ~Resolves(t.id) THEN NameErr(t.id)
         ELSE IF ~Resolves(t.arg) THEN NameErr(t.arg)
         ELSE IF t.id = "x" THEN Exc("TypeError", "'" \o r.t \o "' object is not callable")
         ELSE IF t.arg # "x"
           THEN Exc("TypeError", "object of type 'builtin_function_or_method' has no len()")
         ELSE IF r.t = "str" THEN Val(TInt(Len(r.s)))
         ELSE IF r.t = "list" THEN Val(TInt(Len(r.l)))
         ELSE Exc("TypeError", "object of type '" \o r.t \o "' has no len()")
    [] t.k = "index" ->
         IF t.id # "x" THEN
           IF t.id \in Builtins
           THEN Exc("TypeError", "'builtin_function_or_method' object is not subscriptable")
           ELSE NameErr(t.id)
         ELSE IF r.t = "list" THEN
           IF t.ix + 1 \in 1..Len(r.l) THEN Val(TInt(r.l[t.ix + 1]))
           ELSE Exc("IndexError", "list index out of range")
         ELSE IF r.t = "str" THEN
           IF t.ix + 1 \in 1..Len(r.s) THEN Val(TStr(Ch(r.s, t.ix + 1)))
           ELSE Exc("IndexError", "string index out of range")
         ELSE Exc("TypeError", "'" \o r.t \o "' object is not subscriptable")

\* mutant of EvalAssertion: a comparison of a value that is no number with an
\* int is ordered by type instead of raising TypeError
EvalAssertion_Ordered(assertion, r) ==
  LET e == ParseExpr(assertion)
      tv == EvalTerm(e.term, r)
  IN IF tv.exc # "" \/ ~e.cmp THEN tv
     ELSE IF IsNumber(tv.v) THEN Val(TBool(GreaterThan(tv.v, e.k)))
     ELSE Val(TBool(tv.v.t # "NoneType"))

\* eval(assertion, {}, {"x": r})
EvalAssertion(assertion, r) ==
  LET e == ParseExpr(assertion)
      tv == EvalTerm(e.term, r)
  IN IF tv.exc # "" \/ ~e.cmp THEN tv
     ELSE IF IsNumber(tv.v) THEN Val(TBool(GreaterThan(tv.v, e.k)))
     ELSE Exc("TypeError", GtTypeError(tv.v))

\* the `except (NameError, TypeError, SyntaxError)` of do_script_line
Caught(e) == e \in {"NameError", "TypeError", "SyntaxError"}

\* The assertion step of one iteration: the text appended to the report and
\* the exception that leaves do_script_line ("" if none).
AssertStep(assertion, r) ==
  IF Len(assertion) = 0 THEN [text |-> "", exc |-> ""]
  ELSE LET o == EvalAssertion(assertion, r)
       IN IF o.exc # "" THEN
            IF Caught(o.exc) THEN [text |-> ": *** ERROR *** " \o o.msg, exc |-> ""]
            ELSE [text |-> "", exc |-> o.exc]
          ELSE IF Truthy(o.v) THEN [text |-> ": PASS", exc |-> ""]
          ELSE [text |-> ": *** FAIL ***", exc |-> ""]

-----------------------------------------------------------------------------
(* Transport wrappers around the minimalmodbus instrument *)

\* What the instrument does with one request: it answers, or raises one of
\* the minimalmodbus exceptions for what the device did.
Responses == {"ok", "IllegalRequestError", "InvalidResponseError", "NoResponseError"}

\* str(e) of the exception of a response
Message(resp) ==
  CASE resp = "IllegalRequestError" -> "Slave reported illegal data address"
    [] resp = "InvalidResponseError" -> "Too short Modbus RTU response"
    [] resp = "NoResponseError" -> "No communication with the instrument (no answer)"
    [] OTHER -> resp

\* Outcome of a wrapper: the value returned, or the exception that leaves it
\* (SystemExit for sys.exit), and the comm_status it leaves (V140 only).
Returns(v, st) == [exc |-> "", v |-> v, status |-> st]
Raises(e, st) == [exc |-> e, v |-> TNone, status |-> st]

\* read_register(registeraddress, 0)
read_register(var, st, resp, w) ==
  IF var = "V140" THEN
    CASE resp = "ok" -> Returns(TInt(w), st)
      [] resp = "IllegalRequestError" -> Raises(resp, Message(resp))
      [] resp = "InvalidResponseError" -> Returns(TNone, Message(resp))
      [] resp = "NoResponseError" -> Returns(TNone, Message(resp))
      [] OTHER -> Raises(resp, st)
  ELSE
    CASE resp = "ok" -> Returns(TInt(w), st)
      [] resp = "IllegalRequestError" -> Raises(resp, st)
      [] resp = "InvalidResponseError" -> Raises("SystemExit", st)
      [] resp = "NoResponseError" -> Returns(TNone, st)
      [] OTHER -> Raises(resp, st)

\* read_registers(addr, val): the device answers val words
read_registers(var, st, resp, w, count) ==
  CASE resp = "ok" -> Returns(TList([k \in 1..count |-> w]), st)
    [] resp \in {"IllegalRequestError", "InvalidResponseError", "NoResponseError"} ->
         Returns(TNone, IF var = "V140" THEN Message(resp) ELSE st)
    [] OTHER -> Raises(resp, st)

\* write_register(addr, val, desc)
write_register(var, st, resp) ==
  IF var = "V140" THEN
    CASE resp = "ok" -> Returns(TStr("OK"), "")
      [] resp = "IllegalRequestError" ->
           Returns(TStr("Illegal request error"), "Illegal request error")
      [] resp = "InvalidResponseError" ->
           Returns(TStr("Invalid response error"), "Invalid response error")
      [] resp = "NoResponseError" ->
           Returns(TStr("No communication with the instrument (null answer)"),
                   "No communication with the instrument (null answer)")
      [] OTHER -> Raises(resp, st)
  ELSE
    CASE resp = "ok" -> Returns(TStr("OK"), st)
      [] resp = "IllegalRequestError" -> Returns(TStr("Illegal request error"), st)
      [] resp = "InvalidResponseError" -> Returns(TStr("Invalid response error"), st)
      [] OTHER -> Raises(resp, st)

-----------------------------------------------------------------------------
(* do_script_line *)

\* fields of the coerced row b
RowName(b) == b[1]
RowVal(b) == b[2]
RowWrite(b) == IF Len(b) < 3 THEN TBool(FALSE) ELSE b[3]
RowDelay(b) == IF Len(b) < 4 THEN TInt(0) ELSE b[4]
RowIterations(b) == IF Len(b) < 5 THEN TInt(1) ELSE b[5]

\* line[5].strip() raises AttributeError on a cell that coerced to a number
DescRaises(b) == Len(b) >= 6 /\ b[6].t # "str"

RowDesc(b) == IF Len(b) < 6 \/ Len(Strip(b[6].s)) = 0 THEN "" ELSE Strip(b[6].s)

RowAssertion(b) ==
  LET desc == RowDesc(b)
  IN IF Len(desc) >= 7 /\ Lower(SubSeq(desc, 1, 7)) = "assert:"
     THEN Strip(SubSeq(desc, 8, Len(desc)))
     ELSE ""

DescText(b) == IF Len(RowDesc(b)) = 0 THEN ": " ELSE " [" \o RowDesc(b) \o "]: "

\* the register name is a key of the active map
Known(var, p, b) == RowName(b).t = "str" /\ HasKey(RegMap(var, p), RowName(b).s)

Addr(var, p, b) == Lookup(RegMap(var, p), RowName(b).s)

\* repr of a cell or key, as str() of a KeyError and of a list show it
Repr(v) == IF v.t = "str" THEN "'" \o v.s \o "'" ELSE Str(v)

\* mutant of UnknownKeyReport: the error text does not name the register
UnknownKeyReport_NoName(var, preserve, b) ==
  IF var = "V140"
  THEN preserve \o "Unexpected register name. *** FAIL ***"
  ELSE "*** ERROR *** unknown key"

\* what the row adds to the report when the register name is unknown
UnknownKeyReport(var, preserve, b) ==
  IF var = "V140"
  THEN preserve \o "Unexpected register name: " \o Repr(RowName(b)) \o ". *** FAIL ***"
  ELSE "*** ERROR *** unknown key " \o Str(RowName(b))

\* comm_status after the unknown-key branch
UnknownKeyStatus(var, st, b) ==
  IF var = "V140"
  THEN "Unexpected register name: " \o Repr(RowName(b)) \o ". *** FAIL ***"
  ELSE st

\* mutant of RegText: the header shows the address alone
RegText_AddressOnly(var, p, b) == ToString(Addr(var, p, b))

\* the register as the header shows it
RegText(var, p, b) ==
  IF var = "V140" THEN RowName(b).s
  ELSE KeyAt(RegMap(var, p), Addr(var, p, b)) \o "(" \o ToString(Addr(var, p, b)) \o ")"

\* mutant of IsMulti: `val > 0` selects the multi-register read
IsMulti_Positive(b) == GreaterThan(RowVal(b), 0)

\* `val > 1` selects the multi-register read
IsMulti(b) == GreaterThan(RowVal(b), 1)

\* header of the row: what is done to which register
Header(var, p, b) ==
  IF Truthy(RowWrite(b))
  THEN "Write " \o Str(RowVal(b)) \o " to " \o RegText(var, p, b)
  ELSE IF IsMulti(b)
    THEN "Read " \o Str(RowVal(b)) \o " registers starting at " \o RegText(var, p, b)
    ELSE "Read from " \o RegText(var, p, b)

\* exception raised between the name lookup and the loop, "" if none
PrologueRaises(b) ==
  IF DescRaises(b) THEN "AttributeError"
  ELSE IF ~Truthy(RowWrite(b)) /\ ~IsNumber(RowVal(b)) THEN "TypeError"
  ELSE IF RowIterations(b).t \notin {"int", "bool"} THEN "TypeError"
  ELSE ""

\* len(range(iterations))
Iterations(b) == IF RowIterations(b).n > 0 THEN RowIterations(b).n ELSE 0

\* mutant of CallOf: a read of several registers is issued as a single read
CallOf_SingleReads(var, p, b) ==
  IF Truthy(RowWrite(b)) THEN [op |-> "writeOne", addr |-> Addr(var, p, b), val |-> RowVal(b)]
  ELSE [op |-> "readOne", addr |-> Addr(var, p, b), val |-> TNone]

\* the transport call of one iteration
CallOf(var, p, b) ==
  IF Truthy(RowWrite(b)) THEN [op |-> "writeOne", addr |-> Addr(var, p, b), val |-> RowVal(b)]
  ELSE IF IsMulti(b) THEN [op |-> "readMany", addr |-> Addr(var, p, b), val |-> RowVal(b)]
  ELSE [op |-> "readOne", addr |-> Addr(var, p, b), val |-> TNone]

\* What a call may meet.  The library rejects, before it sends anything, a
\* write of a value that is no number (TypeError) and may reject a
\* multi-register read for its register count (ValueError).
ResponsesTo(call) ==
  IF call.op = "writeOne" /\ ~IsNumber(call.val) THEN {"TypeError"}
  ELSE IF call.op = "readMany" THEN Responses \cup {"ValueError"}
  ELSE Responses

\* mutant of Operation: do_script_line without its try/except around the reads
Operation_NoCatch(var, p, st, b, resp, w) ==
  LET op == CallOf(var, p, b).op
  IN IF op = "writeOne" THEN write_register(var, st, resp)
     ELSE IF op = "readMany" THEN read_registers(var, st, resp, w, RowVal(b).n)
     ELSE read_register(var, st, resp, w)

\* the transport operation of one iteration with its try/except: the result
\* bound to `result`, or the exception that leaves do_script_line
Operation(var, p, st, b, resp, w) ==
  LET op == CallOf(var, p, b).op
  IN IF op = "writeOne" THEN write_register(var, st, resp)
     ELSE IF op = "readMany" THEN
       LET o == read_registers(var, st, resp, w, RowVal(b).n)
       IN IF var = "V140" /\ o.exc = "ValueError" THEN Returns(TStr("(null)"), o.status)
          ELSE o
     ELSE
       LET o == read_register(var, st, resp, w)
       IN IF var = "V140" /\ o.exc = "IllegalRequestError"
          THEN Returns(TStr("(Null)"), o.status)
          ELSE o

\* time.sleep(delay) raises on a delay that is no number or is negative
SleepRaises(b) ==
  IF ~IsNumber(RowDelay(b)) THEN "TypeError"
  ELSE IF RowDelay(b).n < 0 THEN "ValueError"
  ELSE ""

\* mutant of Pause: the loop sleeps between two passes only
Pause_Between(b, k) == IF k + 1 < Iterations(b) THEN 1 ELSE 0

\* the time.sleep(delay) calls of pass k (0-based): the statement ends the
\* loop body, so every pass sleeps once, the last one too
Pause(b, k) == 1

\* the report after pass k (0-based) of the loop body, given the report r
\* before it, the result of the operation and the text of the assertion step
IterationText(var, b, k, r, res, asserted) ==
  r \o (IF Iterations(b) > 1 THEN ToString(k + 1) \o ":" ELSE "")
    \o Str(res)
    \o asserted
    \o (IF k + 1 < Iterations(b) THEN "; " ELSE "")
    \o (IF var = "V140" THEN "\n" ELSE "")

\* the report when do_script_line has returned to run_script, which ends
\* the row's text with a newline if it has none
RowEnd(var, r) ==
  LET out == IF var = "V101" THEN r \o "\n" ELSE r
  IN IF Len(out) = 0 \/ ~EndsWith(out, "\n") THEN out \o "\n" ELSE out

\* run_script after do_script_line returned from the unknown-key branch
UnknownEnd(r) == IF Len(r) = 0 \/ ~EndsWith(r, "\n") THEN r \o "\n" ELSE r

-----------------------------------------------------------------------------
(* Script files: the cells a row of the csv reader may hold *)

NameCells == {"BUS_VOLTAGE", "NO_SUCH_REG"}
ValueCells == {"1", "2", "abc"}
WriteCells == {"false", "true"}
DelayCells == {"0"}
RepeatCells == {"1", "2"}
DescCells == {"", "5", "true", "assert: x > 0", "Assert: len(x) > 0", "assert: x[2] > 0",
              "assert: y > 0"}

\* rows of a one-line script: the five mandatory cells and a description
LineRows ==
  {<<n, v, w, d, r, t>> :
     n \in NameCells, v \in ValueCells, w \in WriteCells, d \in DelayCells,
     r \in RepeatCells, t \in DescCells}

\* rows of a script of several lines: every kind of row, repeated twice,
\* with the assertion x > 0, and a row with too few cells
ScriptRows ==
  {<<n, v, w, "0", "2", "assert: x > 0">> :
     n \in NameCells, v \in ValueCells, w \in WriteCells}
  \cup {<<"BUS_VOLTAGE", "1", "false">>}

\* register contents the device may answer with
RegValues == {0, 5}

RECURSIVE JoinReprs(_)
JoinReprs(row) ==
  IF row = <<>> THEN ""
  ELSE IF Len(row) = 1 THEN "'" \o row[1] \o "'"
  ELSE "'" \o row[1] \o "', " \o JoinReprs(Tail(row))

\* f'{row}' of a list of cell texts
ListRepr(row) == "[" \o JoinReprs(row) \o "]"

-----------------------------------------------------------------------------
(* The state machine *)

\* err while no exception has left run_script
NoError == [exc |-> "", at |-> ""]

\* logged while showlog has not been called
NotLogged == [text |-> "", exc |-> ""]

Init ==
  /\ variant \in {"V101", "V140"}
  /\ device \in RegValues
  /\ product = 0
  /\ pc = "idle"
  /\ nlines = 0
  /\ rowno = 0
  /\ line = <<>>
  /\ i = 0
  /\ ret = ""
  /\ comm_status = ""
  /\ result = TNone
  /\ calls = <<>>
  /\ faults = 0
  /\ sleeps = 0
  /\ err = NoError
  /\ cell = ""
  /\ token = TNone
  /\ frame = <<>>
  /\ logged = NotLogged
  /\ regname = ""
  /\ address = 0
  /\ register = ""
  /\ instrument = (IF variant = "V140" THEN "None" ELSE "unbound")
  /\ connected = FALSE
  /\ connect_disabled = FALSE
  /\ log_handle = "None"
  /\ write_count = 0
  /\ written = 0
  /\ flushes = 0
  /\ polled = ""
  /\ shows = 0

\* an exception leaves run_script (SystemExit: sys.exit ends the process)
Raise(e, at) ==
  /\ pc' = IF e = "SystemExit" THEN "exited" ELSE "raised"
  /\ err' = [exc |-> e, at |-> at]

\* 'Run Script': run_script opens the file and keeps its executable lines
RunScript(lengths) ==
  /\ pc = "idle"
  /\ \E n \in lengths : nlines' = n
  /\ pc' = "row"
  /\ rowno' = 0
  /\ ret' = ""
  /\ UNCHANGED <<variant, device, product, line, i, comm_status, result, calls, faults,
                 sleeps, err>>
  /\ UNCHANGED <<pure, catalog, session>>

\* mutant of ShortRow: a row with fewer than 5 cells ends the run
ShortRow_Fatal(row) ==
  /\ Len(row) < 5
  /\ Raise("IndexError", "prologue")
  /\ line' = <<>>
  /\ UNCHANGED <<ret, rowno, i, comm_status>>

\* run_script: a row with fewer than 5 cells is reported and skipped
ShortRow(row) ==
  /\ Len(row) < 5
  /\ ret' = ret \o "not enough columns in \"" \o ListRepr(row) \o "\"\n"
  /\ line' = <<>>
  /\ rowno' = rowno + 1
  /\ UNCHANGED <<pc, i, comm_status, err>>

\* do_script_line: the register name is no key of the active map
UnknownRow(b) ==
  /\ ~Known(variant, product, b)
  /\ ret' = UnknownEnd(UnknownKeyReport(variant, ret, b))
  /\ comm_status' = UnknownKeyStatus(variant, comm_status, b)
  /\ line' = b
  /\ rowno' = rowno + 1
  /\ UNCHANGED <<pc, i, err>>

\* do_script_line up to the loop: header and description are appended
KnownRow(b) ==
  /\ Known(variant, product, b)
  /\ line' = b
  /\ comm_status' = IF variant = "V140" THEN "" ELSE comm_status
  /\ IF PrologueRaises(b) # ""
     THEN Raise(PrologueRaises(b), "prologue") /\ UNCHANGED <<ret, rowno, i>>
     ELSE /\ i' = 0
          /\ err' = err
          /\ IF Iterations(b) = 0
             THEN /\ ret' = RowEnd(variant, ret \o Header(variant, product, b) \o DescText(b))
                  /\ rowno' = rowno + 1
                  /\ pc' = "row"
             ELSE /\ ret' = ret \o Header(variant, product, b) \o DescText(b)
                  /\ rowno' = rowno
                  /\ pc' = "iter"

\* b of every row of the script alphabets (CoerceRow, evaluated once)
Coerced == [row \in ScriptRows \cup LineRows |-> CoerceRow(row)]

\* run_script: the next row of the reader is coerced and handed to do_script_line
ReadRow(rows) ==
  /\ pc = "row"
  /\ rowno < nlines
  /\ \E row \in rows :
       LET b == Coerced[row]
       IN IF Len(row) < 5 THEN ShortRow(row)
          ELSE IF Known(variant, product, b) THEN KnownRow(b)
          ELSE UnknownRow(b)
  /\ calls' = <<>>
  /\ sleeps' = 0
  /\ UNCHANGED <<variant, device, product, nlines, result, faults>>
  /\ UNCHANGED <<pure, catalog, session>>

\* do_script_line: one pass of `for i in range(iterations)`; the last pass
\* returns to run_script
Iterate ==
  /\ pc = "iter"
  /\ \E resp \in ResponsesTo(CallOf(variant, product, line)) :
       LET call == CallOf(variant, product, line)
           o == Operation(variant, product, comm_status, line, resp, device)
           a == AssertStep(RowAssertion(line), o.v)
           text == IterationText(variant, line, i, ret, o.v, a.text)
       IN /\ resp \in {"ok", "TypeError"} \/ faults < MaxFaults
          /\ faults' = IF resp \in {"ok", "TypeError"} THEN faults ELSE faults + 1
          /\ calls' = Append(calls, [call |-> call, resp |-> resp])
          /\ comm_status' = o.status
          /\ IF o.exc # ""
             THEN Raise(o.exc, "transport") /\ UNCHANGED <<ret, result, i, rowno, sleeps>>
             ELSE /\ result' = o.v
                  /\ IF a.exc # ""
                     THEN Raise(a.exc, "assertion") /\ UNCHANGED <<ret, i, rowno, sleeps>>
                     ELSE IF SleepRaises(line) # ""
                     THEN Raise(SleepRaises(line), "sleep") /\ UNCHANGED <<ret, i, rowno, sleeps>>
                     ELSE /\ sleeps' = sleeps + Pause(line, i)
                          /\ i' = i + 1
                          /\ err' = err
                          /\ IF i + 1 < Iterations(line)
                             THEN ret' = text /\ pc' = pc /\ rowno' = rowno
                             ELSE /\ ret' = RowEnd(variant, text)
                                  /\ pc' = "row"
                                  /\ rowno' = rowno + 1
  /\ UNCHANGED <<variant, device, product, nlines, line>>
  /\ UNCHANGED <<pure, catalog, session>>

\* mutant of Finish: the summary line does not look at the report
Finish_NoSummary ==
  /\ pc = "row"
  /\ rowno = nlines
  /\ ret' = ret \o ToString(nlines) \o " commands processed.\n" \o "No errors detected"
  /\ pc' = "done"
  /\ UNCHANGED <<variant, device, product, nlines, rowno, line, i, comm_status, result,
                 calls, faults, sleeps, err>>
  /\ UNCHANGED <<pure, catalog, session>>

\* run_script after the last row: the trailer
Finish ==
  /\ pc = "row"
  /\ rowno = nlines
  /\ ret' = ret \o ToString(nlines) \o " commands processed.\n"
              \o (IF Contains(ret, "*** FAIL ***") \/ Contains(ret, "*** ERROR ***")
                  THEN "*** AT LEAST ONE COMMAND FAILED ***"
                  ELSE "No errors detected")
  /\ pc' = "done"
  /\ UNCHANGED <<variant, device, product, nlines, rowno, line, i, comm_status, result,
                 calls, faults, sleeps, err>>
  /\ UNCHANGED <<pure, catalog, session>>

\* scripts of up to MaxRows lines
Next == RunScript(0..MaxRows) \/ ReadRow(ScriptRows) \/ Iterate \/ Finish

Spec == Init /\ [][Next]_vars

\* scripts of one line, over all the cells
NextLine == RunScript({1}) \/ ReadRow(LineRows) \/ Iterate \/ Finish

SpecLine == Init /\ [][NextLine]_vars

-----------------------------------------------------------------------------
(* The cell loop of run_script on its own *)

\* number cells: an optional sign, decimal digits, an optional fraction
SignCells == {"", "-", "+"}
WholeCells == {"", "0", "7", "12", "007"}
FracCells == {"", ".", ".5", ".25", ".50"}
NumberCells == {s \o w \o f : s \in SignCells, w \in WholeCells, f \in FracCells}

\* word cells: the two truth words in several letter cases, other texts, and
\* numbers with blanks around them
WordCells ==
  {"true", "True", "TRUE", "tRuE", "false", "False", "FALSE", "fAlSe",
   "", "abc", "truee", "true ", "yes", "BUS_VOLTAGE", "0x10", "1 2", "12abc",
   "12 ", " 12", "1.5 ", "1..5", "--1", "assert: x > 0"}

\* the cells the csv reader may hand to the cell loop
CellTexts == NumberCells \cup WordCells

\* run_script: the reader yields a cell of a row
ReadCell ==
  /\ pc = "idle"
  /\ \E a \in CellTexts : cell' = a
  /\ pc' = "cell"
  /\ UNCHANGED <<variant, device, product, token, frame, logged>>
  /\ UNCHANGED <<script, catalog, session>>

\* run_script: one pass of `for a in row`
CoerceCell ==
  /\ pc = "cell"
  /\ token' = coerce(cell)
  /\ pc' = "token"
  /\ UNCHANGED <<variant, device, product, cell, frame, logged>>
  /\ UNCHANGED <<script, catalog, session>>

\* run_script: the loop goes on with the next cell
NextCell ==
  /\ pc = "token"
  /\ \E a \in CellTexts : cell' = a
  /\ pc' = "cell"
  /\ UNCHANGED <<variant, device, product, token, frame, logged>>
  /\ UNCHANGED <<script, catalog, session>>

NextCoerce == ReadCell \/ CoerceCell \/ NextCell

\* the cell loop over all the cells
SpecCoerce == Init /\ [][NextCoerce]_vars

-----------------------------------------------------------------------------
(* Log decoding: showlog *)

\* hex(n) and f'{n:02x}' of a word
HexChars == <<"0", "1", "2", "3", "4", "5", "6", "7", "8", "9",
              "a", "b", "c", "d", "e", "f">>

RECURSIVE HexDigits(_)
HexDigits(n) ==
  IF n < 16 THEN HexChars[n + 1] ELSE HexDigits(n \div 16) \o HexChars[(n % 16) + 1]

Hex(n) == "0x" \o HexDigits(n)
Hex02(n) == IF n < 16 THEN "0" \o HexDigits(n) ELSE HexDigits(n)

\* i >> 8 and i & 0x00FF of a word
HighByte(w) == w \div 256
LowByte(w) == w % 256

\* the decode tables; a dict is a sequence of <<key, name>>
log_levels == <<"EMERG", "ALERT", "CRIT", "ERR", "WARNING", "NOTICE", "INFO", "DEBUG",
                "UNDEF", "UNDEF", "UNDEF", "UNDEF", "UNDEF", "UNDEF", "UNDEF", "NULL">>
devices == <<"CAN_A", "CAN_B", "RS485">>
pgn_names ==
  << <<0, "null">>, <<1, "ADDRESS_CLAIMED">>, <<2, "J1939_STATUS">>,
     <<65226, "Active DTIC">>, <<65303, "AdvDCS Response">>,
     <<65301, "Controller 1st PGN">>, <<65305, "Controller 2nd PGN">>,
     <<65314, "Controller 3rd PGN">>, <<65315, "Modbus Registers">> >>
codes ==
  << <<0, "null">>, <<1, "ADDRESS_CLAIMED">>, <<2, "J1939_STATUS">>,
     <<65303, "AdvDCS Response">>, <<65301, "Controller 1st PGN">>,
     <<65305, "Controller 2nd PGN">>, <<65314, "Controller 3rd PGN">> >>
j1939_statuses ==
  << <<0, "ADDRESSCLAIM_INIT">>, <<1, "ADDRESSCLAIM_INPROGRESS">>,
     <<2, "NORMALDATATRAFFIC">>, <<3, "ADDRESSCLAIM_FAILED">> >>
charger_modes == << <<0, "Charging">>, <<1, "Standby">>, <<2, "Off">>, <<3, "Delay">> >>
genset_statuses ==
  << <<0, "NOT READY TO CRANK">>, <<1, "READY TO CRANK">>,
     <<2, "DELAY TO CRANK - WTR KIT">>, <<3, "DELAY TO CRANK - GLW PLG">>,
     <<4, "CRANK">>, <<5, "RUNNING">>, <<6, "EMERGENCY STOP">>, <<7, "IDLE MODE">>,
     <<8, "POWERING DOWN">>, <<9, "FACTORY TEST">>,
     <<10, "DELAY TO CRANK - WINTER KIT TEST">>,
     <<11, "DELAY TO CRANK - WINTER KIT DETECT">>,
     <<12, "DELAY TO CRANK - ECM DATASAVE">>, <<13, "RUNNING - SYNCHRONIZING">>,
     <<14, "RUNNING - SYNCHRONIZED">>, <<15, "RUNNING - LOAD SHARE">> >>
control_switch_positions ==
  << <<0, "Off">>, <<1, "Prime and run Aux fuel">>, <<2, "Prime and run">>,
     <<3, "Start">> >>
gen_controls == << <<0, "Off">>, <<1, "Auto">>, <<5, "On">> >>
warmup_states == << <<0, "NoAC">>, <<1, "WarmingUp">>, <<2, "Running">> >>
ac_inputs == << <<0, "Not sensed">>, <<1, "Sensed">> >>

\* f'{d.get(key)}': the name, or None on a miss
Get(d, key) ==
  IF \E k \in 1..Len(d) : d[k][1] = key
  THEN TStr(d[CHOOSE k \in 1..Len(d) : d[k][1] = key][2])
  ELSE TNone

\* the words of a frame, as showlog indexes them (ret[k], k from 0)
Word(fr, k) == fr[k + 1]

\* the clock texts of a call with show_time
Isoformat == "2022-02-16T12:00:00.000000"
Asctime == "Wed Feb 16 12:00:00 2022"

TimeText(var, show_time) ==
  IF ~show_time THEN ""
  ELSE IF var = "V140" THEN Isoformat \o ", " ELSE Asctime \o " "

\* the level: its name, or the number if it is past the table
LevelText(fr) ==
  IF Word(fr, 0) > Len(log_levels) - 1 THEN ToString(Word(fr, 0))
  ELSE log_levels[Word(fr, 0) + 1]

\* code = pgn_names.get(ret[1]) (V101: codes.get)
CodeOf(var, fr) == Get(IF var = "V140" THEN pgn_names ELSE codes, Word(fr, 1))

CodeText(var, fr) ==
  IF Truthy(CodeOf(var, fr)) THEN ", " \o CodeOf(var, fr).s
  ELSE ", " \o Hex(Word(fr, 1))

\* mutant of DeviceText: the node suffix is appended whatever the high byte
DeviceText_AlwaysNode(var, fr) ==
  IF var = "V140" THEN
    IF LowByte(Word(fr, 2)) > Len(devices) - 1
    THEN ", illegel device: " \o ToString(LowByte(Word(fr, 2)))
    ELSE ", " \o devices[LowByte(Word(fr, 2)) + 1] \o ":" \o Hex02(HighByte(Word(fr, 2)))
  ELSE IF Word(fr, 2) > Len(devices) - 1
    THEN ", illegel device: " \o ToString(Word(fr, 2))
    ELSE ", " \o devices[Word(fr, 2) + 1] \o ":" \o Hex02(HighByte(Word(fr, 2)))

\* device and optional node address (V101 indexes by the whole word)
DeviceText(var, fr) ==
  IF var = "V140" THEN
    LET device_ == LowByte(Word(fr, 2))
        node == HighByte(Word(fr, 2))
    IN IF device_ > Len(devices) - 1 THEN ", illegel device: " \o ToString(device_)
       ELSE ", " \o devices[device_ + 1]
              \o (IF node > 0 THEN ":" \o Hex02(node) ELSE "")
  ELSE IF Word(fr, 2) > Len(devices) - 1
    THEN ", illegel device: " \o ToString(Word(fr, 2))
    ELSE ", " \o devices[Word(fr, 2) + 1]

BytesText(fr) ==
  IF Word(fr, 3) <= 8 THEN ", bytes:" \o ToString(Word(fr, 3))
  ELSE ", bytes(illegal value, max 8):" \o ToString(Word(fr, 3))

\* mutant of ByteCount: an illegal byte count is used as it is
ByteCount_Unclamped(fr) == Word(fr, 3)

\* bytes after `bytes = 8  # show the legal number`
ByteCount(fr) == IF Word(fr, 3) <= 8 THEN Word(fr, 3) ELSE 8


\* what showlog has put out, or the exception that left it
Shown(text) == [text |-> text, exc |-> ""]
Failed(text, e) == [text |-> text, exc |-> e]

\* the two bytes of a value word, as the raw-data loop writes them
HexPair(w) == Hex(HighByte(w)) \o " " \o Hex(LowByte(w)) \o " "

\* the loop over fr[from:to] (a slice ends with the frame)
RECURSIVE RawWords(_, _, _)
RawWords(fr, from, to) ==
  IF from >= to \/ from >= Len(fr) THEN ""
  ELSE HexPair(Word(fr, from)) \o RawWords(fr, from + 1, to)

\* the unformatted data: floor(bytes / 2) words, and for an odd count the
\* high byte of fr[4 + ceil(bytes / 2)]
RawData(fr, bytes) ==
  LET words == ", data: " \o RawWords(fr, 4, 4 + (bytes \div 2))
      last == 4 + ((bytes + 1) \div 2)
  IN IF bytes % 2 = 1
     THEN IF last >= Len(fr) THEN Failed(words, "IndexError")
          ELSE Shown(words \o Hex(HighByte(Word(fr, last))) \o " ")
     ELSE Shown(words)

\* ';'.join([bit_low_voltage_warning, bit_lvco]).strip(';'); in Python
\* `x & 0x0002 == 1` is `(x & 0x0002) == 1`
BitText(w) ==
  LET bit_low_voltage_warning == IF w % 2 = 1 THEN "Low voltage warning" ELSE ""
      bit_lvco == IF ((w \div 2) % 2) * 2 = 1 THEN "LVCO" ELSE ""
      joined == bit_low_voltage_warning \o ";" \o bit_lvco
  IN IF bit_low_voltage_warning = "" /\ bit_lvco = "" THEN ""
     ELSE IF bit_lvco = "" THEN bit_low_voltage_warning
     ELSE IF bit_low_voltage_warning = "" THEN bit_lvco
     ELSE joined

\* the part of the line that depends on the code
Detail(var, fr) ==
  LET code == CodeOf(var, fr).s
      n(k) == ToString(Word(fr, k))
      hi(k) == ToString(HighByte(Word(fr, k)))
      lo(k) == ToString(LowByte(Word(fr, k)))
  IN IF code = "J1939_STATUS" THEN
       LET j1939_status == Get(j1939_statuses, Word(fr, 4))
       IN IF Truthy(j1939_status) THEN Shown(", " \o j1939_status.s)
          ELSE Failed("", "TypeError")
     ELSE IF code = "Controller 1st PGN" THEN
       IF var = "V140"
       THEN Shown(", GENERATOR_POWER_SETTINGS:" \o n(4) \o ", CONTROL_VOLTAGE:" \o hi(5)
                    \o ", MAX_CHARGING_CURRENT:" \o lo(5) \o ", START_DELAY:" \o hi(6)
                    \o ", STOP_DELAY:" \o lo(6) \o ", LVCO:" \o n(7))
       ELSE Shown(", GEN_CONTROL:" \o lo(4) \o ", max charge current:" \o lo(5)
                    \o ", start delay:" \o hi(6) \o ", stop delay:" \o lo(6)
                    \o ", LVCO:" \o n(7))
     ELSE IF var = "V140" /\ code = "Controller 2nd PGN" THEN
       Shown(", START_VOLTAGE:" \o n(4) \o ", STOP_VOLTAGE:" \o n(5)
               \o ", UNREGULATED_CURRENT:" \o hi(6) \o ", REGULATED_CURRENT:" \o lo(6)
               \o ", REGULATED_VOLTAGE:" \o n(7))
     ELSE IF var = "V140" /\ code = "Controller 3rd PGN" THEN
       Shown(", BATTERY_VOLTAGE:" \o n(4)
               \o ", CHARGER_MODE:" \o Str(Get(charger_modes, HighByte(Word(fr, 5))))
               \o ", BIT:" \o BitText(Word(fr, 5))
               \o ", CHARGING_CURRENT:" \o hi(6)
               \o ", GEN_CONTROL:" \o Str(Get(gen_controls, LowByte(Word(fr, 6)))))
     ELSE IF var = "V140" /\ code = "Modbus Registers" THEN
       \* `regs` is a local of main: the name is not bound in showlog
       Failed("", "NameError")
     ELSE IF var = "V140" /\ code = "AdvDCS Response" THEN
       Shown(", GENSET_STATUS:"
               \o Str(Get(genset_statuses, HighByte(Word(fr, 4)) % 16))
               \o ", CONTROL_SWITCH_POSITION:"
               \o Str(Get(control_switch_positions,
                          (((HighByte(Word(fr, 4)) \div 64) % 2) * 64) \div 16)))
     ELSE RawData(fr, ByteCount(fr))

\* the end of the line: V101 prints the raw frame
TailText(var, fr) ==
  IF var = "V140" THEN "\n" ELSE ", raw: [" \o JoinInts(fr) \o "]\n"

\* showlog(ret, show_time): V140 puts the line out when it is complete, V101
\* prints it piece by piece
showlog(var, fr, show_time) ==
  LET head == TimeText(var, show_time) \o LevelText(fr) \o CodeText(var, fr)
                \o DeviceText(var, fr) \o BytesText(fr)
      d == Detail(var, fr)
  IN IF d.exc # ""
     THEN Failed(IF var = "V101" THEN head \o d.text ELSE "", d.exc)
     ELSE Shown(head \o d.text \o TailText(var, fr))

\* the frames read from the log registers
LevelWords == {2, 16}
CodeWords == {2, 5, 65301, 65303, 65305, 65314, 65315}
DeviceWords == {1, 3, 257, 515}
ByteCounts == {0, 1, 4, 5, 7, 8, 11}
Value0Words == {2, 7, 4660, 17664}
Value1Words == {257, 258, 259, 22136}
Frames ==
  {<<l, c, d, b, v0, v1, 39612, 57072>> :
     l \in LevelWords, c \in CodeWords, d \in DeviceWords, b \in ByteCounts,
     v0 \in Value0Words, v1 \in Value1Words}

\* readlog: a poll of the log registers returned an entry
ReadLog ==
  /\ pc = "idle"
  /\ \E fr \in Frames : frame' = fr
  /\ pc' = "frame"
  /\ UNCHANGED <<variant, device, product, cell, token, logged>>
  /\ UNCHANGED <<script, catalog, session>>

\* readlog: showlog(log, values['-TIMESTAMP-'], f)
ShowLog ==
  /\ pc = "frame"
  /\ \E show_time \in BOOLEAN : logged' = showlog(variant, frame, show_time)
  /\ pc' = IF logged'.exc = "" THEN "logged" ELSE "raised"
  /\ UNCHANGED <<variant, device, product, cell, token, frame>>
  /\ UNCHANGED <<script, catalog, session>>

NextLog == ReadLog \/ ShowLog

\* the log decoder over the frames
SpecLog == Init /\ [][NextLog]_vars


-----------------------------------------------------------------------------
(* The session: connection, product selection, log poll and log file *)

\* the variables of the script interpreter that the session leaves alone
scriptrun == <<nlines, rowno, line, i, ret, result, calls, faults, sleeps, err>>

\* what connect_port meets on the serial ports
PortOutcomes == {"noports", "nocable", "SerialException", "ok"}

\* products[product][1]
baud(p) == IF p = 0 THEN 57600 ELSE 9600

\* connect_port(): the value returned and the comm_status it leaves
connect_port(p, found) ==
  CASE found = "noports" -> [v |-> "None", status |-> "No serial port found"]
    [] found = "nocable" -> [v |-> "None", status |-> "ENG-00000480 cable not found"]
    [] found = "SerialException" ->
         [v |-> "False", status |-> "could not open port 'COM3'"]
    [] OTHER ->
         [v |-> "Instrument",
          status |-> "Connecting to COM3 at " \o ToString(baud(p))
                       \o " baud and RS485 address 1... "]

\* connected = (instrument != None)
Connected(inst) == inst # "None"

\* the start of the program up to the first window.read: V140 main calls
\* connect_port and lays the Connect button out; V101 looks for the cable at
\* module level and leaves with sys.exit(2) on Cancel or a SerialException
Startup ==
  /\ pc = "idle"
  /\ \E found \in PortOutcomes, proceed \in {"OK", "Cancel"} :
       IF variant = "V140" THEN
         LET c == connect_port(product, found)
         IN /\ instrument' = c.v
            /\ comm_status' = c.status
            /\ connected' = Connected(c.v)
            /\ connect_disabled' = ~Connected(c.v)
            /\ pc' = "loop"
       ELSE
         /\ instrument' = (IF found = "ok" THEN "Instrument" ELSE "unbound")
         /\ pc' = IF found = "SerialException"
                     \/ (found \in {"noports", "nocable"} /\ proceed = "Cancel")
                  THEN "exited" ELSE "loop"
         /\ UNCHANGED <<comm_status, connected, connect_disabled>>
  /\ polled' = ""
  /\ shows' = 0
  /\ UNCHANGED <<variant, device, product, log_handle, write_count, written, flushes>>
  /\ UNCHANGED <<scriptrun, pure, catalog>>

\* event '-CONNECT-' (the button is enabled), then the button update that
\* ends the loop iteration
Connect ==
  /\ pc = "loop"
  /\ variant = "V140"
  /\ ~connect_disabled
  /\ \E found \in PortOutcomes :
       LET c == connect_port(product, found)
       IN /\ instrument' = c.v
          /\ comm_status' = c.status
          /\ connected' = Connected(c.v)
          /\ connect_disabled' = Connected(c.v)
  /\ polled' = ""
  /\ shows' = 0
  /\ UNCHANGED <<variant, device, product, pc, log_handle, write_count, written, flushes>>
  /\ UNCHANGED <<scriptrun, pure, catalog>>

\* event '-PRODUCT-': the product is selected and the port connected anew
ProductChange ==
  /\ pc = "loop"
  /\ variant = "V140"
  /\ \E p \in 0..1, found \in PortOutcomes :
       LET c == connect_port(p, found)
       IN /\ product' = p
          /\ instrument' = c.v
          /\ comm_status' = c.status
          /\ connected' = Connected(c.v)
          /\ connect_disabled' = Connected(c.v)
  /\ polled' = ""
  /\ shows' = 0
  /\ UNCHANGED <<variant, device, pc, log_handle, write_count, written, flushes>>
  /\ UNCHANGED <<scriptrun, pure, catalog>>

\* event '-FILE-' with a file name: log_handle = open(filename, 'w')
OpenFile ==
  /\ pc = "loop"
  /\ variant = "V140"
  /\ log_handle' = "file"
  /\ connect_disabled' = connected
  /\ polled' = ""
  /\ shows' = 0
  /\ UNCHANGED <<variant, device, product, pc, comm_status, instrument, connected,
                 write_count, written, flushes>>
  /\ UNCHANGED <<scriptrun, pure, catalog>>

\* the bounds of the session: lines written to log files
MaxWrites == 201

\* `if write_count >= 100`
FlushEvery == 100

\* `ret[0] != 0x0F`: the level of an empty log
IdleLevel == 15

\* mutant of log_write: the counter is reset only past the threshold
log_write_Late(count) ==
  IF count + 1 > FlushEvery THEN [write_count |-> 0, flush |-> 1]
  ELSE [write_count |-> count + 1, flush |-> 0]

\* showlog on an open file, after log_handle.write(line): the counter and
\* whether the file is flushed
log_write(count) ==
  IF count + 1 >= FlushEvery THEN [write_count |-> 0, flush |-> 1]
  ELSE [write_count |-> count + 1, flush |-> 0]

\* the log entries a poll can return: an empty log, an entry that showlog
\* renders, and one of a J1939_STATUS past its table
SessionFrames ==
  { <<IdleLevel, 0, 0, 0, 0, 0, 0, 0>>,
    <<6, 65301, 1, 8, 2, 257, 39612, 57072>>,
    <<3, 2, 0, 2, 7, 0, 0, 0>> }

\* what instrument.read_registers answers, or how the call fails, for the
\* value the name instrument is bound to
PollResponses(inst) ==
  CASE inst = "Instrument" -> Responses \cup {"SerialException"}
    [] inst = "unbound" -> {"NameError"}
    [] OTHER -> {"AttributeError"}

\* whether the tick polls the log: readlog asks for the checkbox and the
\* flag, the V101 loop polls on every tick
Polls(var, logging, conn) == IF var = "V140" THEN logging /\ conn ELSE TRUE

\* whether the record polled is passed to showlog
Shows(var, r, fr, logging) ==
  /\ r.exc = ""
  /\ r.v # TNone
  /\ fr[1] # IdleLevel
  /\ var = "V101" => logging

\* event '__TIMEOUT__': V140 readlog(values, connected, log_handle), V101 the
\* poll in the main loop; then the button update of V140
Timeout ==
  /\ pc = "loop"
  /\ written < MaxWrites
  /\ \E logging \in BOOLEAN, show_time \in BOOLEAN, fr \in SessionFrames,
        resp \in PollResponses(instrument) :
       LET haskey == HasKey(RegMap(variant, product), "LOG_LEVEL")
           r == IF haskey THEN read_registers(variant, comm_status, resp, 0, 8)
                ELSE Raises("KeyError", comm_status)
           shown == showlog(variant, fr, show_time)
           w == log_write(write_count)
       IN IF ~Polls(variant, logging, connected) THEN
            /\ polled' = "off"
            /\ shows' = 0
            /\ UNCHANGED <<pc, comm_status, frame, logged, write_count, written, flushes>>
          ELSE IF r.exc # "" THEN
            \* V140 readlog catches every exception of the poll and assigns
            \* its own locals connected and comm_status; V101 ends on a
            \* NameError with sys.exit(-1) and lets any other exception out
            /\ polled' = r.exc
            /\ shows' = 0
            /\ pc' = IF variant = "V140" THEN "loop"
                     ELSE IF r.exc = "NameError" THEN "exited" ELSE "raised"
            /\ UNCHANGED <<comm_status, frame, logged, write_count, written, flushes>>
          ELSE IF ~Shows(variant, r, fr, logging) THEN
            /\ polled' = IF r.v = TNone THEN "None"
                         ELSE IF fr[1] = IdleLevel THEN "sentinel" ELSE "record"
            /\ shows' = 0
            /\ comm_status' = r.status
            /\ frame' = IF r.v = TNone THEN <<>> ELSE fr
            /\ UNCHANGED <<pc, logged, write_count, written, flushes>>
          ELSE
            /\ polled' = "record"
            /\ shows' = 1
            /\ comm_status' = r.status
            /\ frame' = fr
            /\ logged' = shown
            /\ pc' = IF shown.exc = "" THEN "loop" ELSE "raised"
            /\ IF shown.exc = "" /\ log_handle # "None"
               THEN /\ written' = written + 1
                    /\ write_count' = w.write_count
                    /\ flushes' = flushes + w.flush
               ELSE UNCHANGED <<write_count, written, flushes>>
  /\ connect_disabled' = (IF variant = "V140" /\ pc' = "loop" THEN connected
                          ELSE connect_disabled)
  /\ UNCHANGED <<variant, device, product, instrument, connected, log_handle>>
  /\ UNCHANGED <<scriptrun, cell, token, catalog>>

NextSession == Startup \/ Connect \/ ProductChange \/ OpenFile \/ Timeout

\* the session of the program from its start
SpecSession == Init /\ [][NextSession]_vars

-----------------------------------------------------------------------------
(* The register catalog: name -> address -> names *)

\* ';'.join(names) of the keys at the positions S of the map, in its order
RECURSIVE JoinNames(_, _)
JoinNames(m, S) ==
  IF S = {} THEN ""
  ELSE LET k == CHOOSE j \in S : \A h \in S : j <= h
       IN IF S = {k} THEN m[k][1] ELSE m[k][1] \o ";" \o JoinNames(m, S \ {k})

\* mutant of RegisterOf: the filter lets the next address through as well
RegisterOf_Neighbours(m, addr) ==
  JoinNames(m, {k \in 1..Len(m) : m[k][2] \in {addr, addr + 1}})

\* ';'.join([k for k, v in regs.items() if v == addr])
RegisterOf(m, addr) == JoinNames(m, {k \in 1..Len(m) : m[k][2] = addr})

\* do_script_line resolves the register name of a row: regs[line[0]]
Resolve ==
  /\ pc = "loop"
  /\ \E k \in 1..Len(RegMap(variant, product)) :
       /\ regname' = RegMap(variant, product)[k][1]
       /\ address' = Lookup(RegMap(variant, product), regname')
  /\ register' = ""
  /\ pc' = IF variant = "V140" THEN "resolved" ELSE "loop"
  /\ UNCHANGED <<variant, device, product, comm_status>>
  /\ UNCHANGED <<scriptrun, pure, session>>

\* showlog looks the names of the address up (V140, 'Modbus Registers')
ReverseLookup ==
  /\ pc = "resolved"
  /\ register' = RegisterOf(RegMap(variant, product), address)
  /\ pc' = "loop"
  /\ UNCHANGED <<variant, device, product, comm_status, regname, address>>
  /\ UNCHANGED <<scriptrun, pure, session>>

NextCatalog == Startup \/ ProductChange \/ Resolve \/ ReverseLookup

\* the catalog of the product selected
SpecCatalog == Init /\ [][NextCatalog]_vars
-----------------------------------------------------------------------------
(* Claims about the script interpreter *)

\* the row just handled named a register that is no key of the active map
UnknownRowDone ==
  /\ pc \in {"row", "done"}
  /\ line # <<>>
  /\ ~Known(variant, product, line)

\* the error text of the variant for an unknown register name
UnknownMarker(var, name) ==
  IF var = "V140" THEN "Unexpected register name: '" \o name \o "'. *** FAIL ***"
  ELSE "*** ERROR *** unknown key " \o name

\* C1 (as claimed): a row whose register name is absent from the map issues no
\* transport call, leaves the literal marker `unknown key <name>` in the
\* report, and the run goes on with the following rows.
C1_Original ==
  UnknownRowDone =>
    /\ calls = <<>>
    /\ Contains(ret, "unknown key " \o Str(RowName(line)))
    /\ err = NoError
    /\ (pc = "row" /\ rowno < nlines => ENABLED ReadRow(ScriptRows))

\* C1 (amended): a row whose register name is absent from the map issues no
\* transport call, the report names the register in the error text of the
\* variant (V101 `*** ERROR *** unknown key <name>`, V140 `Unexpected
\* register name: '<name>'. *** FAIL ***`), and the run goes on with the
\* following rows.
C1_UnknownKey ==
  UnknownRowDone =>
    /\ calls = <<>>
    /\ Contains(ret, UnknownMarker(variant, Str(RowName(line))))
    /\ err = NoError
    /\ (pc = "row" /\ rowno < nlines => ENABLED ReadRow(ScriptRows))

\* an unknown-register row of V140 has been handled and a row follows it
C1_Witness ==
  /\ UnknownRowDone
  /\ variant = "V140"
  /\ pc = "row"
  /\ rowno < nlines

\* the row being executed, or just executed, named a register of the map
KnownRowActive == line # <<>> /\ Known(variant, product, line)

\* pass k of the current row got the response resp from the instrument
Responded(k, resps) == k \in 1..Len(calls) /\ calls[k].resp \in resps

\* what the report shows as the result of a pass that met an illegal address
IllegalPlaceholder(op) ==
  CASE op = "readOne" -> "(Null)"
    [] op = "readMany" -> "None"
    [] op = "writeOne" -> "Illegal request error"

\* C2 (as claimed): when a transport operation of a row reports an illegal
\* address, the row aborts: no further transport call is issued for the
\* remaining iterations of the row, and the run goes on with the next row.
C2_Original ==
  \A k \in 1..Len(calls) :
    Responded(k, {"IllegalRequestError"}) =>
      /\ Len(calls) = k
      /\ pc \in {"row", "done"}

\* C2 (amended): an illegal address does not abort the row.  The pass goes on
\* with a placeholder result in the report ("(Null)" for a single read of
\* V140, None for a multi-register read, "Illegal request error" for a
\* write; V140 also sets comm_status), the remaining passes of the row still
\* issue their transport calls, and the run goes on with the next row.  Only
\* the single read of V101 differs: its IllegalRequestError leaves
\* run_script, which ends the run.
C2_IllegalAddress ==
  \A k \in 1..Len(calls) :
    (KnownRowActive /\ Responded(k, {"IllegalRequestError"})) =>
      IF variant = "V101" /\ calls[k].call.op = "readOne"
      THEN /\ pc = "raised"
           /\ err = [exc |-> "IllegalRequestError", at |-> "transport"]
           /\ Len(calls) = k
      ELSE /\ err.exc # "IllegalRequestError"
           /\ Len(calls) = k =>
                /\ pc = (IF k < Iterations(line) THEN "iter"
                         ELSE IF rowno = nlines /\ Contains(ret, "commands processed.")
                         THEN "done" ELSE "row")
                /\ i = k
                /\ Contains(ret, IllegalPlaceholder(calls[k].call.op))
                /\ variant = "V140" /\ pc # "done" =>
                     comm_status =
                       (IF calls[k].call.op = "writeOne" THEN "Illegal request error"
                        ELSE Message("IllegalRequestError"))

\* a V140 single read met an illegal address in its first pass and the second
\* pass issued its call
C2_Witness ==
  /\ KnownRowActive
  /\ variant = "V140"
  /\ Len(calls) = 2
  /\ calls[1].call.op = "readOne"
  /\ calls[1].resp = "IllegalRequestError"

\* C3 (as claimed): after a read or write that reported no-response or
\* malformed-response the pass goes on with a placeholder result and the run
\* is never terminated, in both variants, for single reads, multi-register
\* reads and writes.
C3_Original ==
  (KnownRowActive /\ Responded(Len(calls), {"NoResponseError", "InvalidResponseError"})) =>
    /\ pc \in {"iter", "row", "done"}
    /\ i = Len(calls)
    /\ result.t \in {"NoneType", "str"}

\* C4 (as claimed): whatever the rows and the transport do, no row-level
\* failure raises out of run_script or ends the process (V140).
C4_Original == variant = "V140" => pc \notin {"raised", "exited"}


\* no exception has left run_script while the current row was executed
RowFinished == pc \in {"row", "done"} /\ err = NoError

\* the row read the register: its write flag is not set
ReadRowActive == KnownRowActive /\ RowWrite(line) = TBool(FALSE)

\* the call the row is to issue in every pass, told from its write flag and
\* its value cell alone
ExpectedCall ==
  IF RowWrite(line) = TBool(TRUE)
  THEN [op |-> "writeOne", addr |-> Addr(variant, product, line), val |-> RowVal(line)]
  ELSE IF RowVal(line).t = "int" /\ RowVal(line).n > 1
    THEN [op |-> "readMany", addr |-> Addr(variant, product, line), val |-> RowVal(line)]
    ELSE [op |-> "readOne", addr |-> Addr(variant, product, line), val |-> TNone]

\* C5: for a row whose register resolves to address a, every pass of the
\* repeat loop issues exactly one transport call, chosen by the write flag and
\* the value alone: writeOne(a, value) if the flag is set, else
\* readMany(a, value) if value > 1, else readOne(a).  A row with write=false
\* and value=1 issues one single read per pass and nothing else.
C5_OneCallPerIteration ==
  KnownRowActive =>
    /\ \A k \in 1..Len(calls) : calls[k].call = ExpectedCall
    /\ pc = "iter" => Len(calls) = i
    /\ RowFinished => Len(calls) = Iterations(line)
    /\ pc \in {"raised", "exited"} => Len(calls) \in {i, i + 1}

\* a row with write=false and value=1, repeated twice, has returned after
\* two single reads
C5_Witness ==
  /\ ReadRowActive
  /\ RowFinished
  /\ RowVal(line) = TInt(1)
  /\ Len(calls) = 2
  /\ \A k \in 1..2 : calls[k].call.op = "readOne"

\* the row reads several registers: write=false and value > 1
MultiReadRow == ReadRowActive /\ RowVal(line).t = "int" /\ RowVal(line).n > 1

\* the number of calls of the current row that are multi-register reads
MultiReads == Cardinality({k \in 1..Len(calls) : calls[k].call.op = "readMany"})

\* C6 (as claimed): a row with write=false and value > 1 issues exactly one
\* multi-register read of size value for the row, and never a single read.
C6_Original ==
  (MultiReadRow /\ RowFinished) =>
    /\ MultiReads = 1
    /\ \A k \in 1..Len(calls) : calls[k].call.op # "readOne"

\* C6 (amended): a row with write=false and value > 1 issues exactly one
\* multi-register read of size value in every pass of its repeat loop (as
\* many as the repeat count when the row returns), and never a single read.
C6_MultiRead ==
  MultiReadRow =>
    /\ \A k \in 1..Len(calls) :
         /\ calls[k].call.op = "readMany"
         /\ calls[k].call.val = RowVal(line)
    /\ pc = "iter" => MultiReads = i
    /\ RowFinished => MultiReads = Iterations(line)

\* a row reading 2 registers, repeated twice, has returned after two
\* multi-register reads
C6_Witness ==
  /\ MultiReadRow
  /\ RowFinished
  /\ Iterations(line) = 2
  /\ MultiReads = 2

\* the row is a single read of which at least one pass is done
SingleReadDone ==
  /\ ReadRowActive
  /\ RowVal(line) = TInt(1)
  /\ pc \in {"iter", "row", "done"}
  /\ i >= 1

\* "(<address>)" of the register of the row
AddressText == "(" \o ToString(Addr(variant, product, line)) \o ")"

\* the description of the row as the entry shows it
BracketedDesc == IF RowDesc(line) = "" THEN "" ELSE " [" \o RowDesc(line) \o "]"

\* the first result of the entry, when the row is not repeated and the
\* device has answered
FirstValue ==
  IF Iterations(line) = 1 /\ calls[1].resp = "ok" THEN ToString(device) ELSE ""

\* C7 (as claimed): the entry of a valid read row holds the register name and
\* its resolved address as `Read from <name>(<address>)`, in both variants.
C7_Original ==
  SingleReadDone =>
    Contains(ret, "Read from " \o RowName(line).s \o AddressText)

\* C7 (amended): the entry of a valid single read row begins with the register
\* name given in the row, then the description in brackets if there is one,
\* then `: <value>`.  V101 shows the resolved address after the name
\* (`Read from BUS_VOLTAGE(45): <value>`); V140 shows the name alone
\* (`Read from BUS_VOLTAGE: <value>`) and the address nowhere in the entry.
C7_ReadEntry ==
  SingleReadDone =>
    /\ StartsWith(ret, "Read from " \o RowName(line).s
                         \o (IF variant = "V101" THEN AddressText ELSE "")
                         \o BracketedDesc \o ": " \o FirstValue)
    /\ variant = "V140" => ~Contains(ret, AddressText)

\* a V140 single read without description has returned the device's value
C7_Witness ==
  /\ SingleReadDone
  /\ variant = "V140"
  /\ RowDesc(line) = ""
  /\ FirstValue # ""
  /\ pc = "row"

\* the current row carries an assertion
AssertingRow == KnownRowActive /\ RowAssertion(line) # ""

\* C8 (as claimed): every pass of a row with an assertion appends one of the
\* markers `: PASS`, `: *** FAIL ***`, `: *** ERROR *** <detail>` after the
\* result, and a failing evaluation, whatever its reason, never aborts the
\* row: the remaining passes still run.
C8_Original ==
  AssertingRow =>
    /\ err.at # "assertion"
    /\ \A k \in 1..Len(calls) :
         k <= i =>
           \/ Contains(ret, ": PASS")
           \/ Contains(ret, ": *** FAIL ***")
           \/ Contains(ret, ": *** ERROR *** ")

\* the row asserts `x > 0` and at least one pass of it is done
PositiveAsserted ==
  /\ KnownRowActive
  /\ RowAssertion(line) = "x > 0"
  /\ pc \in {"iter", "row"}
  /\ i >= 1

\* the marker `x > 0` is to leave for the result r
PositiveMarker(r) ==
  IF r.t = "int" THEN (IF r.n > 0 THEN ": PASS" ELSE ": *** FAIL ***")
  ELSE ": *** ERROR *** '>' not supported between instances of '" \o r.t \o "' and 'int'"

\* what follows the marker of the last pass done
AfterMarker ==
  (IF i < Iterations(line) THEN "; " ELSE "")
    \o (IF variant = "V140" \/ pc = "row" THEN "\n" ELSE "")

\* C9: for the assertion `x > 0` the pass of a positive register value is
\* marked PASS, of a zero value FAIL, and of a result that is a placeholder
\* of a transport failure (None, "(Null)", the status string of a write) or
\* any other value that is no number is marked ERROR and never PASS.
C9_PositiveAssertion ==
  PositiveAsserted =>
    /\ EndsWith(ret, Str(result) \o PositiveMarker(result) \o AfterMarker)
    /\ (\A k \in 1..Len(calls) : calls[k].resp # "ok" \/ calls[k].call.op # "readOne")
         => ~Contains(ret, ": PASS")
    /\ (\A k \in 1..Len(calls) : calls[k].resp = "ok" /\ calls[k].call.op = "readOne")
         => Contains(ret, IF device > 0 THEN ": PASS" ELSE ": *** FAIL ***")

\* the first pass of a V140 single read passed with a positive value, the
\* second met an illegal address and is marked ERROR
C9_Witness ==
  /\ PositiveAsserted
  /\ variant = "V140"
  /\ result = TStr("(Null)")
  /\ Contains(ret, "5: PASS")
  /\ Contains(ret, "(Null): *** ERROR *** ")

\* the assertion of the row mentions a name other than x, and a pass is done
ForeignNameAsserted ==
  /\ AssertingRow
  /\ pc \in {"iter", "row"}
  /\ i >= 1
  /\ NamesOf(RowAssertion(line)) \ {"x"} # {}

\* C10 (as claimed): x is the only name an assertion can resolve; an
\* expression mentioning any other name (a program global, a built-in
\* function) gets the marker of the NameError and the name is never used to
\* compute a verdict.
C10_Original ==
  ForeignNameAsserted =>
    /\ Contains(ret, ": *** ERROR *** name '")
    /\ ~Contains(ret, ": PASS")
    /\ ~Contains(ret, ": *** FAIL ***")

\* the two summary lines of the trailer
FailedSummary == "*** AT LEAST ONE COMMAND FAILED ***"
CleanSummary == "No errors detected"

\* a failure marker stands somewhere in the report
HasFailureMarker == Contains(ret, "*** FAIL ***") \/ Contains(ret, "*** ERROR ***")

\* C11: after the last row run_script appends `<N> commands processed.` with
\* N the number of commands of the script, followed by exactly one summary
\* line: `*** AT LEAST ONE COMMAND FAILED ***` if and only if a
\* `*** FAIL ***` or `*** ERROR ***` marker stands in the report, otherwise
\* `No errors detected`.
C11_Trailer ==
  pc = "done" =>
    /\ rowno = nlines
    /\ EndsWith(ret, ToString(nlines) \o " commands processed.\n"
                       \o (IF HasFailureMarker THEN FailedSummary ELSE CleanSummary))
    /\ ~(Contains(ret, FailedSummary) /\ Contains(ret, CleanSummary))

\* a script of two commands has ended with a failure marker in its report
C11_Witness ==
  /\ pc = "done"
  /\ nlines = 2
  /\ HasFailureMarker
  /\ EndsWith(ret, "2 commands processed.\n" \o FailedSummary)

\* the last row of the script had too few cells
LastRowShort == nlines >= 1 /\ rowno = nlines /\ line = <<>>

\* the last row of the script failed: too few cells, an unknown register, or
\* a transport operation that met a failure of the device
LastRowFailed ==
  \/ LastRowShort
  \/ UnknownRowDone
  \/ KnownRowActive /\ \E k \in 1..Len(calls) : calls[k].resp # "ok"

\* C12 (as claimed): whenever a row of the run failed (unknown register, too
\* few fields, a read or write that met illegal-address, no-response or
\* malformed-response), the summary line is `*** AT LEAST ONE COMMAND FAILED
\* ***` and never `No errors detected`.
C12_Original ==
  (pc = "done" /\ LastRowFailed) =>
    /\ EndsWith(ret, FailedSummary)
    /\ ~EndsWith(ret, CleanSummary)

\* a row with too few cells has just been skipped
ShortRowDone == pc = "row" /\ rowno >= 1 /\ line = <<>>

\* C13: a row with fewer than 5 fields is reported in the run report (`not
\* enough columns in "<row>"`), causes no transport call, and is skipped; the
\* following rows are still processed.
C13_ShortRow ==
  /\ line = <<>> => err = NoError /\ pc \notin {"raised", "exited"}
  /\ ShortRowDone =>
    /\ calls = <<>>
    /\ \E row \in ScriptRows :
         /\ Len(row) < 5
         /\ EndsWith(ret, "not enough columns in \"" \o ListRepr(row) \o "\"\n")
    /\ rowno < nlines => ENABLED ReadRow(ScriptRows)
    /\ rowno = nlines => ENABLED Finish

\* a short row has been skipped and a row follows it
C13_Witness ==
  /\ ShortRowDone
  /\ rowno < nlines
  /\ Contains(ret, "not enough columns in \"['BUS_VOLTAGE', '1', 'false']\"")

\* C14 (as claimed): the report grows append-only during one script
\* execution: the text before any step of the run is a prefix of the text
\* after it, in both variants.
C14_Original == [][StartsWith(ret', ret)]_vars

\* the number cells with what they denote: the digits before the point with
\* their value, the fraction with its digits as a number and their count
WholeParts ==
  {[text |-> "", val |-> 0], [text |-> "0", val |-> 0], [text |-> "7", val |-> 7],
   [text |-> "12", val |-> 12], [text |-> "007", val |-> 7]}
FracParts ==
  {[text |-> "", num |-> 0, digits |-> 0], [text |-> ".", num |-> 0, digits |-> 0],
   [text |-> ".5", num |-> 5, digits |-> 1], [text |-> ".25", num |-> 25, digits |-> 2],
   [text |-> ".50", num |-> 50, digits |-> 2]}

\* the type a number cell is to get: Integer if it is digits alone, Float if
\* it has a point and a digit, else Text
NumberType(w, f) ==
  IF f.text = "" THEN (IF w.text = "" THEN "str" ELSE "int")
  ELSE IF w.text = "" /\ f.digits = 0 THEN "str"
  ELSE "float"

ExpectedNumbers ==
  {[text |-> s \o w.text \o f.text,
    t |-> NumberType(w, f),
    n |-> (IF s = "-" THEN -1 ELSE 1) * (w.val * Pow10(f.digits) + f.num),
    d |-> f.digits] : s \in SignCells, w \in WholeParts, f \in FracParts}

\* the word cells with the token they are to get
ExpectedWords ==
  {[text |-> a, t |-> "bool", n |-> 1, d |-> 0] : a \in {"true", "True", "TRUE", "tRuE"}}
  \cup {[text |-> a, t |-> "bool", n |-> 0, d |-> 0] :
          a \in {"false", "False", "FALSE", "fAlSe"}}
  \cup {[text |-> a, t |-> "int", n |-> 12, d |-> 0] : a \in {"12 ", " 12"}}
  \cup {[text |-> "1.5 ", t |-> "float", n |-> 15, d |-> 1]}
  \cup {[text |-> a, t |-> "str", n |-> 0, d |-> 0] :
          a \in {"", "abc", "truee", "true ", "yes", "BUS_VOLTAGE", "0x10", "1 2",
                 "12abc", "1..5", "--1", "assert: x > 0"}}

ExpectedTokens == ExpectedNumbers \cup ExpectedWords

\* the token is the one expected: the type, and the number or the text
TokenIs(tok, e) ==
  /\ tok.t = e.t
  /\ IF e.t = "str" THEN tok = TStr(e.text)
     ELSE tok.s = "" /\ tok.n * Pow10(e.d) = e.n * Pow10(tok.d)

\* C15: coercion of a cell is total and deterministic and follows a strict
\* order: a cell that parses as an integer becomes an Integer, otherwise one
\* that parses as a float becomes a Float, otherwise `true`/`false` in any
\* letter case becomes a Bool, otherwise the cell stays Text; no cell makes
\* coercion raise, and the same cell always yields the same token.
C15_Coercion ==
  pc = "token" =>
    /\ \E e \in ExpectedTokens : e.text = cell
    /\ \A e \in ExpectedTokens : e.text = cell => TokenIs(token, e)
    /\ token.t \in {"int", "float", "bool", "str"}
    /\ token = coerce(cell)

\* the cell `tRuE` has been coerced to the Bool True
C15_Witness ==
  /\ pc = "token"
  /\ cell = "tRuE"
  /\ token = TBool(TRUE)

\* showlog has been called on the frame
Decoded == pc \in {"logged", "raised"} /\ frame # <<>>

\* the fields of the frame
LevelWord == frame[1]
CodeWord == frame[2]
DeviceWord == frame[3]
ByteCountWord == frame[4]
ValueWord(k) == frame[5 + k]

\* the code of the frame has no rendering of its own in the variant, so the
\* value words are shown as raw data
RawFrame ==
  IF variant = "V140" THEN CodeWord \notin {2, 65301, 65303, 65305, 65314, 65315}
  ELSE CodeWord \notin {2, 65301}

\* the two bytes of the first k value words in hex, as the raw data show them
RECURSIVE RawPairs(_)
RawPairs(k) ==
  IF k = 0 THEN ""
  ELSE RawPairs(k - 1) \o Hex(ValueWord(k - 1) \div 256) \o " "
         \o Hex(ValueWord(k - 1) % 256) \o " "

\* what follows the raw data in the line
AfterData == IF variant = "V140" THEN "\n" ELSE ", raw: ["

\* C16 (as claimed): in the raw-data rendering of a frame with an odd
\* byteCount n the decoder emits the two bytes of each of the first
\* floor(n/2) value words and then exactly one more byte, taken from the next
\* value word value[floor(n/2)], and never reads outside the frame.
C16_Original ==
  (Decoded /\ RawFrame /\ ByteCountWord <= 8 /\ ByteCountWord % 2 = 1) =>
    LET k == ByteCountWord \div 2
    IN /\ logged.exc = ""
       /\ \E byte \in {ValueWord(k) \div 256, ValueWord(k) % 256} :
            Contains(logged.text, ", data: " \o RawPairs(k) \o Hex(byte) \o " " \o AfterData)

\* C17: when the byteCount word is greater than 8 the decoder marks the
\* byte-count field as illegal in the line and uses exactly 8 bytes, the four
\* value words and nothing beyond them, for the raw-data rendering.
C17_ByteCountClamp ==
  (Decoded /\ ByteCountWord > 8) =>
    /\ logged.text # "" =>
         /\ Contains(logged.text,
                     ", bytes(illegal value, max 8):" \o ToString(ByteCountWord))
         /\ ~Contains(logged.text, ", bytes:")
    /\ RawFrame =>
         /\ logged.exc = ""
         /\ Contains(logged.text, ", data: " \o RawPairs(4) \o AfterData)

\* a frame with byteCount 11 and an unknown code has been decoded
C17_Witness ==
  /\ Decoded
  /\ ByteCountWord = 11
  /\ CodeWord = 5
  /\ logged.exc = ""
  /\ Contains(logged.text, ", data: 0x")

\* C18 (as claimed): frame decoding is total: for every frame of 8 words
\* showlog completes and produces a line without raising.
C18_Original ==
  Decoded =>
    /\ logged.exc = ""
    /\ logged.text # ""

\* C19 (as claimed): a decode-table lookup that misses renders the raw value
\* of the field: a J1939_STATUS frame with value0 outside 0..3 shows the hex
\* of value0, and a miss in the charger-mode table shows the number looked
\* up, never `None`.
C19_Original ==
  /\ (Decoded /\ CodeWord = 2 /\ ValueWord(0) > 3) =>
       /\ logged.exc = ""
       /\ Contains(logged.text, ", " \o Hex(ValueWord(0)))
  /\ (Decoded /\ variant = "V140" /\ CodeWord = 65314 /\ ValueWord(1) \div 256 > 3) =>
       /\ Contains(logged.text, ", CHARGER_MODE:" \o ToString(ValueWord(1) \div 256))
       /\ ~Contains(logged.text, "None")

\* the name of a device index
DeviceName(k) == CASE k = 0 -> "CAN_A" [] k = 1 -> "CAN_B" [] k = 2 -> "RS485"

\* the node suffix of the high bytes of the frames
NodeSuffix(hi) == CASE hi = 0 -> "" [] hi = 1 -> ":01" [] hi = 2 -> ":02"

\* the frame [2, 2, 0x0001, 4, 2, 0, 0, 0] of the example, up to the value
\* words the J1939_STATUS rendering does not look at
ExampleFrame ==
  /\ LevelWord = 2 /\ CodeWord = 2 /\ DeviceWord = 1
  /\ ByteCountWord = 4 /\ ValueWord(0) = 2

\* C20 (as claimed): the device is the low byte of deviceWord as index into
\* the device table (an index > 2 is flagged), and the high byte is appended
\* as a two-digit hex node suffix exactly when it is non-zero.
C20_Original ==
  (Decoded /\ logged.text # "") =>
    LET lo == DeviceWord % 256
        hi == DeviceWord \div 256
    IN /\ IF lo > 2 THEN Contains(logged.text, ", illegel device: " \o ToString(lo))
          ELSE Contains(logged.text, ", " \o DeviceName(lo))
       /\ hi # 0 <=> \E node \in {":01", ":02"} : Contains(logged.text, node \o ", bytes")

\* C20 (amended): V140 takes the low byte of deviceWord as index into the
\* device table; an index > 2 is flagged as `illegel device: <index>` and
\* gets no node suffix, a legal index shows the device name followed by the
\* high byte as `:<two hex digits>` exactly when the high byte is non-zero.
\* V101 indexes the table with the whole deviceWord (any word > 2 is flagged)
\* and shows no node suffix.  The frame [2, 2, 0x0001, 4, 2, 0, 0, 0] decodes
\* to CRIT, J1939_STATUS, CAN_B without suffix, NORMALDATATRAFFIC in both.
C20_Device ==
  (Decoded /\ logged.text # "") =>
    LET lo == DeviceWord % 256
        hi == DeviceWord \div 256
        index == IF variant = "V140" THEN lo ELSE DeviceWord
        shown == IF index > 2 THEN ", illegel device: " \o ToString(index)
                 ELSE ", " \o DeviceName(index)
                        \o (IF variant = "V140" THEN NodeSuffix(hi) ELSE "")
    IN /\ Contains(logged.text, shown \o ", bytes")
       /\ ExampleFrame =>
            /\ logged.exc = ""
            /\ Contains(logged.text,
                        "CRIT, J1939_STATUS, CAN_B, bytes:4, NORMALDATATRAFFIC"
                          \o (IF variant = "V140" THEN "\n" ELSE ", raw: [2, 2, 1, 4, 2, "))

\* V140 has decoded a frame of device CAN_B with node address 1
C20_Witness ==
  /\ Decoded
  /\ variant = "V140"
  /\ DeviceWord = 257
  /\ Contains(logged.text, ", CAN_B:01, bytes:")

\* the register map in use
ActiveMap == RegMap(variant, product)

\* a name has been resolved and its address looked up again
RoundTripDone == variant = "V140" /\ pc = "loop" /\ regname # ""

RegisterFrame == Decoded /\ variant = "V140" /\ CodeWord = 65315

\* the value of a register-update frame as the line is to show it
RegisterValue ==
  LET names == RegisterOf(ActiveMap, ValueWord(0))
  IN IF names = "WARMUP_STATE" THEN Str(Get(warmup_states, ValueWord(1)))
     ELSE IF names = "AC_INPUT" THEN Str(Get(ac_inputs, ValueWord(1)))
     ELSE ToString(ValueWord(1))

\* C22 (as claimed): for every frame whose code is the register-update code
\* (0xFF23, 'Modbus Registers') showlog completes and produces a line ending
\* in `<register>:<value>`, <register> being the names of the active
\* product's map whose address is value0, joined with `;`, and <value> being
\* value1, or the warm-up-state or AC-input name when the register is
\* WARMUP_STATE or AC_INPUT.
C22_Original ==
  RegisterFrame =>
    /\ logged.exc = ""
    /\ EndsWith(logged.text,
                ", " \o RegisterOf(ActiveMap, ValueWord(0)) \o ":" \o RegisterValue \o "\n")

\* the frame of V140 is a 'Controller 3rd PGN' (0xFF22) and has been decoded
ThirdPgnFrame == Decoded /\ variant = "V140" /\ CodeWord = 65314

\* the BIT field for the two low bits of a word, as claimed
ClaimedBits(w) ==
  (IF w % 2 = 1 THEN "Low voltage warning" ELSE "")
    \o (IF w % 2 = 1 /\ (w \div 2) % 2 = 1 THEN ";" ELSE "")
    \o (IF (w \div 2) % 2 = 1 THEN "LVCO" ELSE "")

\* C23 (as claimed): in a 'Controller 3rd PGN' frame the two low bits of
\* value1 are independent flags: `Low voltage warning` is in the BIT field
\* exactly when bit 0 is set, `LVCO` exactly when bit 1 is set, and the `;`
\* between them exactly when both are set.
C23_Original ==
  ThirdPgnFrame =>
    Contains(logged.text, ", BIT:" \o ClaimedBits(ValueWord(1)) \o ", CHARGING_CURRENT:")

\* C24 (as claimed): for a row with repeat count n >= 1 do_script_line runs
\* n passes and sleeps only between two passes: n-1 sleeps when the row has
\* returned, none after the last pass.
C24_Original ==
  (KnownRowActive /\ RowFinished) => sleeps = Iterations(line) - 1

\* C24 (amended): for a row with repeat count n >= 1 do_script_line runs
\* exactly n passes in order, and time.sleep(delay) ends every pass, the last
\* one too: k sleeps after k passes, n sleeps when the row has returned.
C24_SleepEveryPass ==
  KnownRowActive =>
    /\ pc = "iter" => (i < Iterations(line) /\ sleeps = i /\ Len(calls) = i)
    /\ RowFinished =>
         /\ i = RowIterations(line).n
         /\ sleeps = RowIterations(line).n
         /\ Len(calls) = RowIterations(line).n

\* a row repeated twice has returned after two passes and two sleeps
C24_Witness ==
  /\ KnownRowActive
  /\ RowFinished
  /\ RowIterations(line).n = 2
  /\ sleeps = 2
  /\ Len(calls) = 2

\* the description cell of the current row looks like a number or a boolean
NumericDescription == line # <<>> /\ Len(line) >= 6 /\ line[6].t # "str"

\* C28 (as claimed): the description cell of a row is free text whatever its
\* content: a row of at least 5 fields whose description looks like a number
\* or a boolean is executed like a row with any other description and does
\* not fail the run.
C28_Original ==
  NumericDescription =>
    /\ err = NoError
    /\ pc \notin {"raised", "exited"}

\* do_script_line of V140 has returned from a row with a known register
\* after at least one transport operation
RowOperated ==
  /\ variant = "V140"
  /\ KnownRowActive
  /\ RowFinished
  /\ calls # <<>>

\* C29 (as claimed): after do_script_line has finished a row with a known
\* register (V140), comm_status is empty if and only if the last transport
\* operation of the row succeeded; the failure of an earlier pass leaves no
\* stale status once a later pass has succeeded, for reads as for writes.
C29_Original ==
  RowOperated => (comm_status = "" <=> calls[Len(calls)].resp = "ok")

\* the event loop of V140 is running
SessionRunning == variant = "V140" /\ pc = "loop"

\* C27 (as claimed): connect_port returns the instrument object if connected
\* and None otherwise, so after any sequence of start-up, Connect and
\* product-change events the flag connected is true only when instrument is
\* a usable instrument object, never when the serial port could not be opened.
C27_Original ==
  (SessionRunning /\ connected) => instrument = "Instrument"

\* C30 (as claimed): when a log poll of readlog fails with a lost connection
\* (NameError) or a serial exception, the session is disconnected from the
\* next iteration of the event loop on: connected is false and the Connect
\* button is enabled.
C30_Original ==
  (SessionRunning /\ polled \in {"NameError", "SerialException"}) =>
    /\ ~connected
    /\ ~connect_disabled

\* a timer tick has polled the log registers and the poll has returned
PollReturned == pc \in {"loop", "raised"} /\ polled \in {"None", "sentinel", "record"}

\* C25 (as claimed): on every poll tick a polled record whose level word is
\* the idle sentinel 0x0F, or a poll that returned no data (None), is never
\* passed to showlog, and every other polled record is decoded exactly once.
C25_Original ==
  PollReturned =>
    /\ polled \in {"None", "sentinel"} => shows = 0
    /\ polled = "record" => shows = 1

\* the counters of the log file agree: the lines written since the last flush
\* are counted, below the threshold, and every full hundred has been flushed
LogSinkCounted ==
  /\ write_count \in 0..(FlushEvery - 1)
  /\ write_count = written % FlushEvery
  /\ flushes = written \div FlushEvery
  /\ log_handle = "None" => (written = 0 /\ flushes = 0)

\* a step of the session in which showlog was called and returned
ShowlogReturned == shows' = 1 /\ logged'.exc = ""

\* what a step of the session does to the log file
LogSinkStep ==
  /\ (ShowlogReturned /\ log_handle # "None") => written' = written + 1
  /\ (~ShowlogReturned \/ log_handle = "None") => written' = written
  /\ flushes' \in {flushes, flushes + 1}
  /\ flushes' = flushes + 1 <=>
       (ShowlogReturned /\ log_handle # "None" /\ write_count = FlushEvery - 1)

====
